---------------------------- MODULE Spec2Model ----------------------------
(***************************************************************************)
(* Verification model of toaster/fritz_sync.                               *)
(*                                                                         *)
(* Part 2 (at the end of the model section): Sync of src/sync/sync.go, with *)
(* the source readers and the target reader/writer as the environment.     *)
(*                                                                         *)
(* Part 1: the HTTP Digest Authentication transport (package digest, kept  *)
(* in src/tr064/adapter.go): parseChallenge, credentials.authorize and     *)
(* Transport.RoundTrip, with the underlying http.RoundTripper and the      *)
(* callers as the environment.                                             *)
(*                                                                         *)
(* Go strings are modelled as sequences of one-character strings, so that  *)
(* Trim, HasPrefix, Split and SplitN do what the Go functions do.          *)
(***************************************************************************)
EXTENDS Integers, Sequences, FiniteSets, TLC

(***************************************************************************)
(* Bounds of the model.                                                    *)
(***************************************************************************)
\* most parameters of a WWW-Authenticate value given to parseChallenge alone
MaxParams == 2
\* runs of Sync in a behaviour
MaxRuns == 2
\* most source readers given to Sync
MaxSources == 2
\* most phone numbers of a contact given to the Fritz!Box adapter
MaxNumbers == 1
\* concurrent callers of one transport in SpecConc
NumProcs == 2
\* RoundTrip calls made on one transport in a behaviour
MaxCalls == 2
\* longest request body, in bytes
MaxBody == 2

(***************************************************************************)
(* String helpers (package strings).                                       *)
(***************************************************************************)
Range(s) == {s[i] : i \in DOMAIN s}

\* s[from:to] of Go, 0-based, to exclusive
Slice(s, from, to) == SubSeq(s, from + 1, to)

RECURSIVE TrimLeft(_, _)
TrimLeft(s, cutset) ==
    IF s # <<>> /\ Head(s) \in cutset THEN TrimLeft(Tail(s), cutset) ELSE s

RECURSIVE TrimRight(_, _)
TrimRight(s, cutset) ==
    IF s # <<>> /\ s[Len(s)] \in cutset
    THEN TrimRight(SubSeq(s, 1, Len(s) - 1), cutset)
    ELSE s

\* strings.Trim: all leading and trailing characters of cutset removed
Trim(s, cutset) == TrimRight(TrimLeft(s, cutset), cutset)

\* strings.HasPrefix
HasPrefix(s, prefix) ==
    Len(s) >= Len(prefix) /\ SubSeq(s, 1, Len(prefix)) = prefix

\* index (1-based) of the first occurrence of character ch in s from
\* position i on, 0 if none
RECURSIVE IndexFrom(_, _, _)
IndexFrom(s, ch, i) ==
    IF i > Len(s) THEN 0
    ELSE IF s[i] = ch THEN i
    ELSE IndexFrom(s, ch, i + 1)

IndexOf(s, ch) == IndexFrom(s, ch, 1)

\* strings.Split(s, sep) for a one-character separator: never empty
RECURSIVE Split(_, _)
Split(s, sep) ==
    LET i == IndexOf(s, sep)
    IN  IF i = 0 THEN <<s>>
        ELSE <<SubSeq(s, 1, i - 1)>> \o Split(SubSeq(s, i + 1, Len(s)), sep)

\* strings.SplitN(s, sep, 2) for a one-character separator
SplitN2(s, sep) ==
    LET i == IndexOf(s, sep)
    IN  IF i = 0 THEN <<s>>
        ELSE <<SubSeq(s, 1, i - 1), SubSeq(s, i + 1, Len(s))>>

\* strings.Join(sl, sep)
RECURSIVE Join(_, _)
Join(sl, sep) ==
    IF sl = <<>> THEN <<>>
    ELSE IF Len(sl) = 1 THEN sl[1]
    ELSE sl[1] \o sep \o Join(Tail(sl), sep)

(***************************************************************************)
(* String literals of the source.                                          *)
(***************************************************************************)
EmptyStr == <<>>
sDigestSp == <<"D", "i", "g", "e", "s", "t", " ">>
sMD5 == <<"M", "D", "5">>
sAuth == <<"a", "u", "t", "h">>
sRealm == <<"r", "e", "a", "l", "m">>
sDomain == <<"d", "o", "m", "a", "i", "n">>
sNonce == <<"n", "o", "n", "c", "e">>
sOpaque == <<"o", "p", "a", "q", "u", "e">>
sStale == <<"s", "t", "a", "l", "e">>
sAlgorithm == <<"a", "l", "g", "o", "r", "i", "t", "h", "m">>
sQop == <<"q", "o", "p">>
\* const ws = " \n\r\t" and const qs = `"` of parseChallenge
ws == {" ", "\n", "\r", "\t"}
qs == {"\""}

(***************************************************************************)
(* parseChallenge.  The result is [err, c]: err is "nil", "ErrBadChallenge" *)
(* or "panic" (r[1] indexed when the parameter holds no '=': Go's index    *)
(* out of range run-time panic).                                           *)
(***************************************************************************)
NilChallenge ==
    [Realm |-> EmptyStr, Domain |-> EmptyStr, Nonce |-> EmptyStr,
     Opaque |-> EmptyStr, Stale |-> EmptyStr, Algorithm |-> EmptyStr,
     Qop |-> EmptyStr]

\* c := &challenge{Algorithm: "MD5"}
NewChallenge == [NilChallenge EXCEPT !.Algorithm = sMD5]

\* the challenge field a recognized key is stored in, "" for any other key
KeyField(key) ==
    CASE key = sRealm -> "Realm"
      [] key = sDomain -> "Domain"
      [] key = sNonce -> "Nonce"
      [] key = sOpaque -> "Opaque"
      [] key = sStale -> "Stale"
      [] key = sAlgorithm -> "Algorithm"
      [] key = sQop -> "Qop"
      [] OTHER -> ""

\* the loop over sl, from index i on, with the challenge c built so far
RECURSIVE ParseParams(_, _, _)
ParseParams(sl, i, c) ==
    IF i > Len(sl) THEN [err |-> "nil", c |-> c]
    ELSE LET r == SplitN2(sl[i], "=")
             f == KeyField(Trim(r[1], {" "}))
         IN  IF f = "" THEN [err |-> "ErrBadChallenge", c |-> NilChallenge]
             ELSE IF Len(r) < 2 THEN [err |-> "panic", c |-> NilChallenge]
             ELSE ParseParams(sl, i + 1, [c EXCEPT ![f] = Trim(r[2], qs)])

\* (mutant) every input yields a challenge
parseChallengeLenient(input) == [err |-> "nil", c |-> NewChallenge]

parseChallenge(input) ==
    LET s == Trim(input, ws)
    IN  IF ~HasPrefix(s, sDigestSp)
        THEN [err |-> "ErrBadChallenge", c |-> NilChallenge]
        ELSE ParseParams(Split(Trim(Slice(s, 7, Len(s)), ws), ","), 1,
                         NewChallenge)


(***************************************************************************)
(* Credentials: h, kd, ha1, ha2, resp, authorize, newCredentials.          *)
(***************************************************************************)
Colon == <<":">>
Quoted(s) == <<"\"">> \o s \o <<"\"">>

\* MD5 in lowercase hex, kept symbolic: an injective term over its input
h(data) == <<"m", "d", "5", "(">> \o data \o <<")">>

kd(secret, data) == h(secret \o Colon \o data)

ha1(c) == h(c.Username \o Colon \o c.Realm \o Colon \o c.password)

\* (mutant) the URI before the method
ha2Swapped(c) == h(c.DigestURI \o Colon \o c.method)

ha2(c) == h(c.method \o Colon \o c.DigestURI)

HexDigits == <<"0", "1", "2", "3", "4", "5", "6", "7", "8", "9",
               "a", "b", "c", "d", "e", "f">>

\* fmt.Sprintf("%x", b) of a byte slice: two digits per byte
RECURSIVE HexBytes(_)
HexBytes(b) ==
    IF b = <<>> THEN <<>>
    ELSE <<HexDigits[(Head(b) \div 16) + 1], HexDigits[(Head(b) % 16) + 1]>>
         \o HexBytes(Tail(b))

\* the lowercase hex digits of n, most significant first, "0" for 0
RECURSIVE HexInt(_)
HexInt(n) ==
    IF n < 16 THEN <<HexDigits[n + 1]>>
    ELSE HexInt(n \div 16) \o <<HexDigits[(n % 16) + 1]>>

\* (mutant) %x in place of %08x: no padding
Hex08Short(n) == HexInt(n)

\* fmt.Sprintf("%08x", n): zero-padded to at least 8 digits
Hex08(n) ==
    LET d == HexInt(n)
    IN  [i \in 1..(IF Len(d) < 8 THEN 8 - Len(d) ELSE 0) |-> "0"] \o d

\* credentials.resp(cnonce); rnd is what rand.Reader yields.
\* Returns the digest, the error and the credentials as it leaves them.
resp(c0, cnonce, rnd) ==
    LET c == [c0 EXCEPT !.NonceCount = c0.NonceCount + 1]
    IN  IF c.MessageQop = sAuth
        THEN LET c2 == [c EXCEPT !.Cnonce =
                          IF cnonce # EmptyStr THEN cnonce
                          ELSE Slice(HexBytes(rnd), 0, 16)]
             IN  [val |-> kd(ha1(c2), c2.Nonce \o Colon \o Hex08(c2.NonceCount)
                                      \o Colon \o c2.Cnonce \o Colon
                                      \o c2.MessageQop \o Colon \o ha2(c2)),
                  err |-> "nil", c |-> c2]
        ELSE IF c.MessageQop = EmptyStr
        THEN [val |-> kd(ha1(c), c.Nonce \o Colon \o ha2(c)),
              err |-> "nil", c |-> c]
        ELSE [val |-> EmptyStr, err |-> "ErrAlgNotImplemented", c |-> c]

\* (mutant) authorize without the check of the algorithm
authorizeAnyAlgorithm(c, rnd) ==
    IF c.MessageQop # sAuth /\ c.MessageQop # EmptyStr
    THEN [val |-> EmptyStr, err |-> "ErrAlgNotImplemented"]
    ELSE [val |-> sDigestSp \o <<"r", "e", "s", "p", "o", "n", "s", "e", "=">>
                    \o Quoted(resp(c, EmptyStr, rnd).val),
          err |-> "nil"]

\* credentials.authorize(): [val, err], the Authorization value and the error
authorize(c, rnd) ==
    IF c.Algorithm # sMD5
    THEN [val |-> EmptyStr, err |-> "ErrAlgNotImplemented"]
    ELSE IF c.MessageQop # sAuth /\ c.MessageQop # EmptyStr
    THEN [val |-> EmptyStr, err |-> "ErrAlgNotImplemented"]
    ELSE LET r == resp(c, EmptyStr, rnd)
             d == r.c
             sl == << <<"u", "s", "e", "r", "n", "a", "m", "e", "=">>
                        \o Quoted(d.Username),
                      sRealm \o <<"=">> \o Quoted(d.Realm),
                      sNonce \o <<"=">> \o Quoted(d.Nonce),
                      <<"u", "r", "i", "=">> \o Quoted(d.DigestURI),
                      <<"r", "e", "s", "p", "o", "n", "s", "e", "=">>
                        \o Quoted(r.val) >>
                   \o (IF d.Algorithm # EmptyStr
                       THEN <<sAlgorithm \o <<"=">> \o Quoted(d.Algorithm)>>
                       ELSE <<>>)
                   \o (IF d.Opaque # EmptyStr
                       THEN <<sOpaque \o <<"=">> \o Quoted(d.Opaque)>>
                       ELSE <<>>)
                   \o (IF d.MessageQop # EmptyStr
                       THEN <<sQop \o <<"=">> \o d.MessageQop,
                              <<"n", "c", "=">> \o Hex08(d.NonceCount),
                              <<"c", "n", "o", "n", "c", "e", "=">>
                                \o Quoted(d.Cnonce)>>
                       ELSE <<>>)
         IN  IF r.err # "nil"
             THEN [val |-> EmptyStr, err |-> "ErrAlgNotImplemented"]
             ELSE [val |-> sDigestSp \o Join(sl, <<",", " ">>), err |-> "nil"]

\* the transport's credentials
Username == <<"u">>
Password == <<"p">>

\* Transport.newCredentials(req, c)
newCredentials(rq, c) ==
    [Username |-> Username, Realm |-> c.Realm, Nonce |-> c.Nonce,
     DigestURI |-> rq.URI, Algorithm |-> c.Algorithm, Cnonce |-> EmptyStr,
     Opaque |-> c.Opaque, MessageQop |-> c.Qop, NonceCount |-> 0,
     method |-> rq.Method, password |-> Password]

\* the value of parameter key among the parameters sl[i..] of an
\* Authorization value, "" when there is none
RECURSIVE ParamFrom(_, _, _)
ParamFrom(sl, key, i) ==
    IF i > Len(sl) THEN EmptyStr
    ELSE LET r == SplitN2(sl[i], "=")
         IN  IF Len(r) = 2 /\ Trim(r[1], {" "}) = key THEN Trim(r[2], qs)
             ELSE ParamFrom(sl, key, i + 1)

AuthParam(hdr, key) ==
    IF ~HasPrefix(hdr, sDigestSp) THEN EmptyStr
    ELSE ParamFrom(Split(Slice(hdr, 7, Len(hdr)), ","), key, 1)

(***************************************************************************)
(* State.                                                                  *)
(***************************************************************************)
VARIABLES
    procs,        \* the callers sharing the transport
    hasTransport, \* t.Transport # nil
    auth,         \* t.auth
    writers,      \* the calls in the middle of storing to t.auth
    pc,           \* where each caller's RoundTrip stands
    req,          \* *req, the caller's request object
    buf,          \* body, the buffer the tee writes to
    resp1,        \* resp, the first attempt's response
    respClosed,   \* resp.Body.Close() was called
    pend,         \* what cr.authorize() returned, being assigned
    ret,          \* what RoundTrip returned
    \* history, for the properties
    orig,         \* the request as the caller passed it
    sent,         \* the requests handed to the underlying transport, this call
    got,          \* what the underlying transport returned, this call
    nparse,       \* calls of parseChallenge, this call
    nauth,        \* calls of authorize, this call
    calls,        \* RoundTrip calls started
    ncCount,      \* how often each (username, realm, nonce, nc) was sent
    race,         \* t.auth was accessed while another call was storing to it
    answered      \* val: the value cached by the last answered challenge,
                  \* "" once a first attempt got a 401 since; at: the number
                  \* of the call that answered it

\* parseChallenge and credentials.authorize called on their own
VARIABLES
    fields,       \* the parameters the WWW-Authenticate value is made of
    input,        \* the string given to parseChallenge
    parsed,       \* what parseChallenge returned
    cred,         \* the credentials authorize is called on
    header        \* what authorize returned

shared == <<procs, hasTransport, auth, writers>>
locals == <<pc, req, buf, resp1, respClosed, pend, ret>>
history == <<orig, sent, got, nparse, nauth, calls, ncCount, race, answered>>
\* Sync
VARIABLES
    from,         \* the source readers: the map each one's ReadAll returns
    tgt,          \* what the target stores: ID -> contact
    spc,          \* where Sync stands
    old,          \* old, the map read from the target
    newContacts,  \* newContacts, the merged maps of the sources
    nread,        \* sources read so far
    toBeDeleted, toBeUpdated, toBeAdded,
    \* history, for the properties
    merged,       \* newContacts as it was when the last source was read
    ops,          \* the calls made on the sources and the target, all runs
    sret,         \* what each run of Sync returned
    runs          \* runs of Sync started

\* credentials.resp with h (MD5) computed
VARIABLES
    term,         \* the digest wanted, h(...) where not computed yet
    md            \* the MD5 computation under way

\* the conversions of the Fritz!Box adapter
VARIABLES
    contact,      \* the contact given to phonebookEntryFromContact
    entry,        \* what phonebookEntryFromContact returned
    back          \* what contactFromPhonebookEntry made of that entry

pure == <<fields, input, parsed, cred, header, term, md>>
syncv == <<from, tgt, spc, old, newContacts, nread, toBeDeleted, toBeUpdated,
           toBeAdded, merged, ops, sret, runs>>
fritzv == <<contact, entry, back>>
vars == <<shared, locals, history, pure, syncv, fritzv>>

(***************************************************************************)
(* The environment's inputs: requests of the callers, responses of the     *)
(* underlying transport, bytes of rand.Reader.  With several callers the   *)
(* inputs are drawn from smaller sets (requests without a body, fewer      *)
(* challenges), to keep the interleavings of two calls checkable.          *)
(***************************************************************************)
AllProcs == 1..NumProcs

Concurrent == Cardinality(procs) > 1

Comma == <<",", " ">>
Param(k, v) == k \o <<"=">> \o Quoted(v)

\* WWW-Authenticate values the server answers a 401 with
ChalAuth ==
    sDigestSp \o Param(sRealm, <<"r">>) \o Comma \o Param(sNonce, <<"n", "1">>)
      \o Comma \o Param(sQop, sAuth)
ChalLegacy ==
    sDigestSp \o Param(sRealm, <<"r">>) \o Comma \o Param(sNonce, <<"n", "0">>)
      \o Comma \o Param(sOpaque, <<"o">>)
ChalSess ==
    sDigestSp \o Param(sRealm, <<"r">>) \o Comma \o Param(sNonce, <<"n", "1">>)
      \o Comma \o sAlgorithm \o <<"=", "M", "D", "5", "-", "s", "e", "s", "s">>
ChalAuthInt ==
    sDigestSp \o Param(sRealm, <<"r">>) \o Comma \o Param(sNonce, <<"n", "1">>)
      \o Comma \o Param(sQop, <<"a", "u", "t", "h", "-", "i", "n", "t">>)
ChalBasic == <<"B", "a", "s", "i", "c", " ">> \o Param(sRealm, <<"r">>)
ChalNoValue == sDigestSp \o sRealm
Challenges ==
    IF Concurrent THEN {ChalAuth, ChalLegacy, ChalSess}
    ELSE {EmptyStr, ChalBasic, ChalAuth, ChalLegacy, ChalSess, ChalAuthInt,
          ChalNoValue}

\* header maps: functions from header names to their value
NoHeader == [k \in {} |-> EmptyStr]
HGet(hd, k) == IF k \in DOMAIN hd THEN hd[k] ELSE EmptyStr
HSet(hd, k, v) == [x \in DOMAIN hd \cup {k} |-> IF x = k THEN v ELSE hd[x]]

Bytes == {"a", "b"}
RECURSIVE SeqsUpTo(_, _)
SeqsUpTo(S, n) ==
    IF n = 0 THEN {<<>>}
    ELSE LET shorter == SeqsUpTo(S, n - 1)
         IN  shorter \cup {Append(q, x) : q \in shorter, x \in S}

\* a request body: nil (e.g. a GET built with a nil body) or a stream
\* (tee: wrapped by newTeeReadCloser)
Bodies ==
    IF Concurrent THEN {[nil |-> FALSE, data |-> <<>>, tee |-> FALSE]}
    ELSE {[nil |-> TRUE, data |-> <<>>, tee |-> FALSE]}
           \cup {[nil |-> FALSE, data |-> d, tee |-> FALSE] :
                   d \in SeqsUpTo(Bytes, MaxBody)}

URIs == {<<"/", "a">>, <<"/", "b", "?", "x", "=", "1">>}
sPOST == <<"P", "O", "S", "T">>
sGET == <<"G", "E", "T">>
CallerHeaders ==
    IF Concurrent THEN {NoHeader}
    ELSE {NoHeader, HSet(NoHeader, "SOAPAction", <<"s">>)}

\* the requests a caller passes to RoundTrip
Requests ==
    {[Method |-> IF b.nil THEN sGET ELSE sPOST, URI |-> u, Header |-> hd,
      Body |-> b] : u \in URIs, hd \in CallerHeaders, b \in Bodies}

\* what rand.Reader yields for the client nonce
RandBytes ==
    IF Concurrent THEN {<<222, 173, 190, 239, 0, 17, 34, 51>>}
    ELSE {<<222, 173, 190, 239, 0, 17, 34, 51>>, <<0, 0, 0, 0, 0, 0, 0, 1>>}

NilResp == [id |-> 0, StatusCode |-> 0, WWWAuth |-> EmptyStr]
Statuses == {200, 401, 500}
\* the outcomes of the underlying transport's RoundTrip on attempt k: a
\* response (id names the response object) and no error, or an error alone;
\* a 401 carries a challenge, on the retry the one challenge ChalAuth
Outcomes(k) ==
    {[resp |-> NilResp, err |-> IF k = 1 THEN "net1" ELSE "net2"]}
      \cup UNION {{[resp |-> [id |-> k, StatusCode |-> st, WWWAuth |-> w],
                     err |-> "nil"] :
                      w \in IF st # 401 THEN {EmptyStr}
                            ELSE IF k = 1 THEN Challenges ELSE {ChalAuth}} :
                   st \in Statuses}

NoReq == [Method |-> EmptyStr, URI |-> EmptyStr, Header |-> NoHeader,
          Body |-> [nil |-> TRUE, data |-> <<>>, tee |-> FALSE]]
NoRet == [resp |-> NilResp, err |-> "none"]
NoPend == [val |-> EmptyStr, err |-> "nil"]
NoAnswer == [val |-> EmptyStr, at |-> 0]

(***************************************************************************)
(* Inputs of parseChallenge called on its own: a scheme prefix followed by  *)
(* comma-separated parameters, each key="value" or a key alone.            *)
(***************************************************************************)
sFoo == <<"f", "o", "o">>
Keys == {sRealm, sDomain, sNonce, sOpaque, sStale, sAlgorithm, sQop}
Values == {<<"v">>, <<"a", ",", "b">>, <<"x", "=", "y">>}

Params ==
    {[key |-> k, val |-> v, bare |-> FALSE] : k \in Keys \cup {sFoo}, v \in Values}
      \cup {[key |-> k, val |-> EmptyStr, bare |-> TRUE] : k \in Keys \cup {sFoo}}

\* the lists of at most n parameters with different keys
RECURSIVE ParamListsUpTo(_)
ParamListsUpTo(n) ==
    IF n = 0 THEN {<<>>}
    ELSE LET shorter == ParamListsUpTo(n - 1)
         IN  shorter \cup
               {Append(x[1], x[2]) :
                  x \in {y \in shorter \X Params :
                           \A i \in DOMAIN y[1] : y[1][i].key # y[2].key}}

ParamLists == ParamListsUpTo(MaxParams)

Prefixes ==
    {sDigestSp, <<" ">> \o sDigestSp, <<"d", "i", "g", "e", "s", "t", " ">>,
     <<"B", "a", "s", "i", "c", " ">>, EmptyStr}

FormatParam(pm) == IF pm.bare THEN pm.key ELSE Param(pm.key, pm.val)

\* the header value: prefix, then the parameters separated by ", "
FormatChallenge(prefix, pl) ==
    prefix \o Join([i \in DOMAIN pl |-> FormatParam(pl[i])], Comma)

NotParsed == [err |-> "none", c |-> NilChallenge]

(***************************************************************************)
(* Inputs of credentials.authorize called on its own: the credentials      *)
(* newCredentials builds from a request and a challenge.                   *)
(***************************************************************************)
sMD5sess == <<"M", "D", "5", "-", "s", "e", "s", "s">>
sAuthInt == <<"a", "u", "t", "h", "-", "i", "n", "t">>
AlgValues == {sMD5, EmptyStr, sMD5sess, <<"m", "d", "5">>}
QopValues == {sAuth, EmptyStr, sAuthInt}

ParsedChallenges ==
    {[NilChallenge EXCEPT !.Realm = <<"r">>, !.Nonce = <<"n", "1">>,
                          !.Algorithm = a, !.Qop = q, !.Opaque = o] :
       a \in AlgValues, q \in QopValues, o \in {EmptyStr, <<"o">>}}

Credentials ==
    {newCredentials(rq, c) :
       rq \in {r \in Requests : r.Header = NoHeader /\ r.Body.data = <<>>},
       c \in ParsedChallenges}

NoCred == newCredentials(NoReq, NilChallenge)
NotAuthorized == [val |-> EmptyStr, err |-> "none"]

(***************************************************************************)
(* MD5 (crypto/md5, RFC 1321), as h uses it.  A 32-bit word is a pair       *)
(* <<high 16 bits, low 16 bits>>.                                          *)
(***************************************************************************)
\* the characters with the codes 32..126 (code 96 by its name)
AsciiChars ==
    <<" ", "!", "\"", "#", "$", "%", "&", "'", "(", ")", "*", "+", ",",
      "-", ".", "/", "0", "1", "2", "3", "4", "5", "6", "7", "8", "9", ":",
      ";", "<", "=", ">", "?", "@", "A", "B", "C", "D", "E", "F", "G", "H",
      "I", "J", "K", "L", "M", "N", "O", "P", "Q", "R", "S", "T", "U", "V",
      "W", "X", "Y", "Z", "[", "\\", "]", "^", "_", "grave", "a", "b", "c",
      "d", "e", "f", "g", "h", "i", "j", "k", "l", "m", "n", "o", "p", "q",
      "r", "s", "t", "u", "v", "w", "x", "y", "z", "{", "|", "}", "~">>

\* the byte of an ASCII character
Code(ch) == 31 + (CHOOSE i \in DOMAIN AsciiChars : AsciiChars[i] = ch)

\* bitwise operations on numbers of n bits
BitOf(op, a, b) ==
    CASE op = "and" -> a * b
      [] op = "or" -> a + b - a * b
      [] OTHER -> (a + b) % 2

RECURSIVE BitOp(_, _, _, _)
BitOp(op, x, y, n) ==
    IF n = 0 THEN 0
    ELSE BitOf(op, x % 2, y % 2) + 2 * BitOp(op, x \div 2, y \div 2, n - 1)

WAnd(a, b) == <<BitOp("and", a[1], b[1], 16), BitOp("and", a[2], b[2], 16)>>
WOr(a, b) == <<BitOp("or", a[1], b[1], 16), BitOp("or", a[2], b[2], 16)>>
WXor(a, b) == <<BitOp("xor", a[1], b[1], 16), BitOp("xor", a[2], b[2], 16)>>
WNot(a) == <<65535 - a[1], 65535 - a[2]>>

\* addition modulo 2^32
WAdd(a, b) ==
    <<(a[1] + b[1] + ((a[2] + b[2]) \div 65536)) % 65536, (a[2] + b[2]) % 65536>>

\* rotation to the left by n bits, 0 <= n < 32
RECURSIVE RotL(_, _)
RotL(a, n) ==
    IF n >= 16 THEN RotL(<<a[2], a[1]>>, n - 16)
    ELSE IF n = 0 THEN a
    ELSE LET cut == 2 ^ (16 - n)
         IN  <<(a[1] % cut) * (2 ^ n) + (a[2] \div cut),
               (a[2] % cut) * (2 ^ n) + (a[1] \div cut)>>

\* the sine table: floor(2^32 * abs(sin(i))), i = 1..64
SineTable ==
    <<<<55146, 42104>>, <<59591, 46934>>, <<9248, 28891>>,
      <<49597, 52974>>, <<62844, 4015>>, <<18311, 50730>>,
      <<43056, 17939>>, <<64838, 38145>>, <<27008, 39128>>,
      <<35652, 63407>>, <<65535, 23473>>, <<35164, 55230>>,
      <<27536, 4386>>, <<64920, 29075>>, <<42617, 17294>>, <<18868, 2081>>,
      <<63006, 9570>>, <<49216, 45888>>, <<9822, 23121>>, <<59830, 51114>>,
      <<54831, 4189>>, <<580, 5203>>, <<55457, 59009>>, <<59347, 64456>>,
      <<8673, 52710>>, <<49975, 2006>>, <<62677, 3463>>, <<17754, 5357>>,
      <<43491, 59653>>, <<64751, 41976>>, <<26479, 729>>, <<36138, 19594>>,
      <<65530, 14658>>, <<34673, 63105>>, <<28061, 24866>>,
      <<64997, 14348>>, <<42174, 59972>>, <<19422, 53161>>,
      <<63163, 19296>>, <<48831, 48240>>, <<10395, 32454>>,
      <<60065, 10234>>, <<54511, 12421>>, <<1160, 7429>>, <<55764, 53305>>,
      <<59099, 39397>>, <<8098, 31992>>, <<50348, 22117>>, <<62505, 8772>>,
      <<17194, 65431>>, <<43924, 9127>>, <<64659, 41017>>,
      <<25947, 22979>>, <<36620, 52370>>, <<65519, 62589>>,
      <<34180, 24017>>, <<28584, 32335>>, <<65068, 59104>>,
      <<41729, 17172>>, <<19976, 4513>>, <<63315, 32386>>,
      <<48442, 62005>>, <<10967, 53947>>, <<60294, 54161>>>>

\* the rotation of each of the 64 operations
ShiftTable ==
    <<7, 12, 17, 22, 7, 12, 17, 22, 7, 12, 17, 22, 7, 12, 17, 22,
      5, 9, 14, 20, 5, 9, 14, 20, 5, 9, 14, 20, 5, 9, 14, 20,
      4, 11, 16, 23, 4, 11, 16, 23, 4, 11, 16, 23, 4, 11, 16, 23,
      6, 10, 15, 21, 6, 10, 15, 21, 6, 10, 15, 21, 6, 10, 15, 21>>

\* the initial chaining values A, B, C, D
InitWords ==
    <<<<26437, 8961>>, <<61389, 43913>>, <<39098, 56574>>, <<4146, 21622>>>>

\* the message padded: a 1 bit, zeros up to 56 modulo 64, the length in bits
\* as 8 bytes, least significant first
Pad(bytes) ==
    LET n == Len(bytes)
        zeros == (119 - (n % 64)) % 64
        bits == 8 * n
    IN  bytes \o <<128>> \o [i \in 1..zeros |-> 0]
          \o <<bits % 256, (bits \div 256) % 256, (bits \div 65536) % 256,
               bits \div 16777216, 0, 0, 0, 0>>

\* the 16 words of block k (from 1) of the padded message, each of 4 bytes,
\* least significant first
BlockWords(padded, k) ==
    [j \in 1..16 |->
       LET at == 64 * (k - 1) + 4 * (j - 1)
       IN  <<padded[at + 4] * 256 + padded[at + 3],
             padded[at + 2] * 256 + padded[at + 1]>>]

\* operation i (from 0) of a block on the words st = <<a, b, c, d>>
Md5Step(st, block, i) ==
    LET a == st[1]
        b == st[2]
        c == st[3]
        d == st[4]
        f == CASE i < 16 -> WOr(WAnd(b, c), WAnd(WNot(b), d))
               [] i < 32 -> WOr(WAnd(d, b), WAnd(WNot(d), c))
               [] i < 48 -> WXor(b, WXor(c, d))
               [] OTHER -> WXor(c, WOr(b, WNot(d)))
        g == CASE i < 16 -> i
               [] i < 32 -> (5 * i + 1) % 16
               [] i < 48 -> (3 * i + 5) % 16
               [] OTHER -> (7 * i) % 16
        sum == WAdd(WAdd(f, a), WAdd(SineTable[i + 1], block[g + 1]))
    IN  <<d, WAdd(b, RotL(sum, ShiftTable[i + 1])), b, c>>

\* the bytes of a word, least significant first
WordBytes(w) == <<w[2] % 256, w[2] \div 256, w[1] % 256, w[1] \div 256>>

\* fmt.Sprintf("%x", hf.Sum(nil))
Md5Hex(hw) ==
    HexBytes(WordBytes(hw[1]) \o WordBytes(hw[2]) \o WordBytes(hw[3])
               \o WordBytes(hw[4]))

NoHash ==
    [on |-> FALSE, lo |-> 0, hi |-> 0, blocks |-> <<>>, bi |-> 0, i |-> 0,
     hw |-> InitWords, st |-> InitWords]

\* position of the first ")" of t, 0 if none
FirstClose(t) ==
    LET at == {i \in DOMAIN t : t[i] = ")"}
    IN  IF at = {} THEN 0 ELSE CHOOSE i \in at : \A j \in at : i <= j

\* an h not computed yet starts at position i of t
OpensAt(t, i) ==
    i + 3 <= Len(t) /\ SubSeq(t, i, i + 3) = <<"m", "d", "5", "(">>

\* position of the last "md5(" of t that starts before position n, 0 if none
LastOpen(t, n) ==
    LET at == {i \in 1..(n - 4) : OpensAt(t, i)}
    IN  IF at = {} THEN 0 ELSE CHOOSE i \in at : \A j \in at : i >= j

(***************************************************************************)
(* Inputs of credentials.resp with MD5 computed: the credentials of the    *)
(* example of RFC 2617, without qop and with qop "auth".                   *)
(***************************************************************************)
sMufasa == <<"M", "u", "f", "a", "s", "a">>
sTestRealm ==
    <<"t", "e", "s", "t", "r", "e", "a", "l", "m", "@", "h", "o", "s", "t",
      ".", "c", "o", "m">>
sCircleOfLife ==
    <<"C", "i", "r", "c", "l", "e", " ", "O", "f", " ", "L", "i", "f", "e">>
sDirIndex ==
    <<"/", "d", "i", "r", "/", "i", "n", "d", "e", "x", ".", "h", "t", "m",
      "l">>
sRfcNonce ==
    <<"d", "c", "d", "9", "8", "b", "7", "1", "0", "2", "d", "d", "2", "f",
      "0", "e", "8", "b", "1", "1", "d", "0", "f", "6", "0", "0", "b", "f",
      "b", "0", "c", "0", "9", "3">>

RfcCredentials ==
    [Username |-> sMufasa, Realm |-> sTestRealm, Nonce |-> sRfcNonce,
     DigestURI |-> sDirIndex, Algorithm |-> sMD5, Cnonce |-> EmptyStr,
     Opaque |-> EmptyStr, MessageQop |-> EmptyStr, NonceCount |-> 0,
     method |-> sGET, password |-> sCircleOfLife]

DigestCredentials ==
    {RfcCredentials, [RfcCredentials EXCEPT !.MessageQop = sAuth]}

(***************************************************************************)
(* Contacts, and the inputs of Sync: the maps the source readers return    *)
(* and what the target stores.  A Go slice is nil or not, and has elements. *)
(***************************************************************************)
\* PhonePurpose Work and PhoneType Cell
Work == 1
Cell == 1

NilNumbers == [isNil |-> TRUE, list |-> <<>>]
NoNumbers == [isNil |-> FALSE, list |-> <<>>]
OneNumber ==
    [isNil |-> FALSE,
     list |-> <<[Number |-> "1", Priority |-> TRUE, Purpose |-> Work,
                 Type |-> Cell]>>]

\* what a contact holds besides ID and SyncID
BaseData == [Email |-> "e", FullName |-> "n", Image |-> "", Numbers |-> NilNumbers]
SourceData == {BaseData, [BaseData EXCEPT !.Numbers = OneNumber]}
TargetData ==
    SourceData \cup
      {[BaseData EXCEPT !.Numbers = NoNumbers], [BaseData EXCEPT !.Email = "f"],
       [BaseData EXCEPT !.FullName = "m"], [BaseData EXCEPT !.Image = "i"],
       [BaseData EXCEPT !.Image = "i", !.Numbers = OneNumber]}

MkContact(d, id, syncID) ==
    [Email |-> d.Email, FullName |-> d.FullName, ID |-> id, Image |-> d.Image,
     Numbers |-> d.Numbers, SyncID |-> syncID]

\* the maps from the keys K to the values V, on every subset of K
Maps(K, V) == UNION {[D -> V] : D \in SUBSET K}

EmptyMap == [k \in {} |-> BaseData]

\* the ID of the source contact stored under key k: the key itself (as the
\* adapters of this repository do), or another string
SourceID(k, byID) == IF byID THEN k ELSE IF k = "a" THEN "A" ELSE "B"

\* the maps a source reader returns: the first over keys a and b, the others
\* over key b
SourceMaps(i, byID) ==
    {[k \in DOMAIN m |-> MkContact(m[k], SourceID(k, byID), "")] :
       m \in Maps(IF i = 1 THEN {"a", "b"} ELSE {"b"}, SourceData)}

RECURSIVE SourceLists(_, _)
SourceLists(n, byID) ==
    IF n = 0 THEN {<<>>}
    ELSE LET shorter == SourceLists(n - 1, byID)
         IN  shorter \cup
               {Append(l, m) : l \in {x \in shorter : Len(x) = n - 1},
                               m \in SourceMaps(n, byID)}

\* the IDs the target gives to its contacts
TargetIDs == <<"1", "2", "3", "4", "5", "6">>

\* what the target stores at first: contact "1" with any data, contact "2"
\* with the base data, each synced from a or b
Targets ==
    {[id \in DOMAIN m |-> MkContact(m[id].d, id, m[id].s)] :
       m \in {x \in Maps({"1", "2"}, [d : TargetData, s : {"a", "b"}]) :
                "2" \in DOMAIN x => x["2"].d = BaseData}}

(***************************************************************************)
(* The Fritz!Box adapter (src/sync/fritzbox/adapter.go): the contacts given *)
(* to phonebookEntryFromContact.  Strings are sequences of characters.     *)
(***************************************************************************)
\* PhonePurpose Home, PhoneType voice (the unnamed zero value) and Fax
Home == 0
Voice == 0
Fax == 2

\* a.syncIDKey
syncIDKey == "fritz_sync_id"

FritzNumbers ==
    [Number : {<<"1">>}, Priority : BOOLEAN, Purpose : {Home, Work},
     Type : {Voice, Cell, Fax}]

FritzContacts ==
    [Email : {<<>>, <<"e">>},
     FullName : {<<"n">>, <<" ", "n">>},
     ID : {<<>>, <<"7">>, <<"0", "7">>, <<"x">>},
     Image : {<<>>, <<"i">>},
     Numbers : {NilNumbers}
                 \cup {[isNil |-> FALSE, list |-> l] :
                         l \in SeqsUpTo(FritzNumbers, MaxNumbers)},
     SyncID : {<<>>, <<"a">>}]

NoEntry ==
    [done |-> FALSE, err |-> "nil",
     e |-> [RealName |-> <<>>, Address |-> <<>>, UniqueID |-> 0,
            Numbers |-> NilNumbers, Unknown |-> <<>>]]

NoBack ==
    [done |-> FALSE,
     c |-> [Email |-> <<>>, FullName |-> <<>>, ID |-> <<>>, Image |-> <<>>,
            Numbers |-> NilNumbers, SyncID |-> <<>>]]

(***************************************************************************)
(* Initial states: a transport as NewTransport leaves it (t.auth empty),   *)
(* or one whose Transport field was left nil; no call under way.           *)
(***************************************************************************)
InitTransport ==
    /\ hasTransport \in BOOLEAN
    /\ auth = EmptyStr
    /\ writers = {}
    /\ pc = [p \in AllProcs |-> "idle"]
    /\ req = [p \in AllProcs |-> NoReq]
    /\ buf = [p \in AllProcs |-> <<>>]
    /\ resp1 = [p \in AllProcs |-> NilResp]
    /\ respClosed = [p \in AllProcs |-> FALSE]
    /\ pend = [p \in AllProcs |-> NoPend]
    /\ ret = [p \in AllProcs |-> NoRet]
    /\ orig = [p \in AllProcs |-> NoReq]
    /\ sent = [p \in AllProcs |-> <<>>]
    /\ got = [p \in AllProcs |-> <<>>]
    /\ nparse = [p \in AllProcs |-> 0]
    /\ nauth = [p \in AllProcs |-> 0]
    /\ calls = 0
    /\ ncCount = [k \in {} |-> 0]
    /\ race = FALSE
    /\ answered = NoAnswer

\* Sync is not called
NoSync ==
    /\ from = <<>>
    /\ tgt = EmptyMap
    /\ spc = "idle"
    /\ old = EmptyMap
    /\ newContacts = EmptyMap
    /\ nread = 0
    /\ toBeDeleted = <<>>
    /\ toBeUpdated = <<>>
    /\ toBeAdded = <<>>
    /\ merged = EmptyMap
    /\ ops = <<>>
    /\ sret = <<>>
    /\ runs = 0

\* neither parseChallenge nor authorize is called on its own
NoPure ==
    /\ fields = <<>>
    /\ input = EmptyStr
    /\ parsed = NotParsed
    /\ cred = NoCred
    /\ header = NotAuthorized
    /\ term = EmptyStr
    /\ md = NoHash

\* the Fritz!Box adapter converts nothing
NoFritz ==
    /\ contact = NoBack.c
    /\ entry = NoEntry
    /\ back = NoBack

\* one caller: its calls follow one another
Init == procs = {1} /\ InitTransport /\ NoPure /\ NoSync /\ NoFritz

\* several callers share the transport
InitConc == procs = AllProcs /\ InitTransport /\ NoPure /\ NoSync /\ NoFritz

\* no caller of RoundTrip; parseChallenge is given a header value
InitParse ==
    /\ procs = {}
    /\ InitTransport
    /\ hasTransport
    /\ fields \in ParamLists
    /\ \E prefix \in Prefixes : input = FormatChallenge(prefix, fields)
    /\ parsed = NotParsed
    /\ cred = NoCred
    /\ header = NotAuthorized
    /\ term = EmptyStr
    /\ md = NoHash
    /\ NoSync
    /\ NoFritz

\* no caller of RoundTrip; authorize is called on fresh credentials
InitAuthorize ==
    /\ procs = {}
    /\ InitTransport
    /\ hasTransport
    /\ fields = <<>>
    /\ input = EmptyStr
    /\ parsed = NotParsed
    /\ cred \in Credentials
    /\ header = NotAuthorized
    /\ term = EmptyStr
    /\ md = NoHash
    /\ NoSync
    /\ NoFritz

\* no caller of RoundTrip; resp is called on credentials
InitDigest ==
    /\ procs = {}
    /\ InitTransport
    /\ hasTransport
    /\ fields = <<>>
    /\ input = EmptyStr
    /\ parsed = NotParsed
    /\ cred \in DigestCredentials
    /\ header = NotAuthorized
    /\ term = EmptyStr
    /\ md = NoHash
    /\ NoSync
    /\ NoFritz

\* no caller of RoundTrip; the Fritz!Box adapter is given a contact
InitFritz ==
    /\ procs = {}
    /\ InitTransport
    /\ hasTransport
    /\ NoPure
    /\ NoSync
    /\ contact \in FritzContacts
    /\ entry = NoEntry
    /\ back = NoBack

\* no caller of RoundTrip; Sync is given sources and a target
InitSync ==
    /\ procs = {}
    /\ InitTransport
    /\ hasTransport
    /\ NoPure
    /\ NoFritz
    /\ \E byID \in BOOLEAN : from \in SourceLists(MaxSources, byID)
    /\ tgt \in Targets
    /\ spc = "idle"
    /\ old = EmptyMap
    /\ newContacts = EmptyMap
    /\ nread = 0
    /\ toBeDeleted = <<>>
    /\ toBeUpdated = <<>>
    /\ toBeAdded = <<>>
    /\ merged = EmptyMap
    /\ ops = <<>>
    /\ sret = <<>>
    /\ runs = 0

(***************************************************************************)
(* Reads of and stores to t.auth.  Nothing synchronizes them, and a Go     *)
(* string is two words (pointer, length): a load that overlaps a store may *)
(* see the old value, the new one, or the pointer of one with the length   *)
(* of the other.                                                           *)
(***************************************************************************)
Garbage == <<"?">>

TornOf(a, b) ==
    {a, b,
     IF Len(a) <= Len(b) THEN SubSeq(b, 1, Len(a)) ELSE Garbage,
     IF Len(b) <= Len(a) THEN SubSeq(a, 1, Len(b)) ELSE Garbage}

\* the values a load of t.auth may yield
ReadAuth ==
    IF writers = {} THEN {auth}
    ELSE UNION {TornOf(auth, pend[w].val) : w \in writers}

\* (mutant) a cached value is kept, the newly computed one dropped
StoredAuthKeep(p) == IF auth # EmptyStr THEN {auth} ELSE {pend[p].val}

\* the values t.auth may hold once p's store is complete
StoredAuth(p) ==
    IF writers \ {p} = {} THEN {pend[p].val}
    ELSE UNION {TornOf(pend[p].val, pend[w].val) : w \in writers \ {p}}

(***************************************************************************)
(* History of the requests handed to the underlying transport.             *)
(***************************************************************************)
sUsername == <<"u", "s", "e", "r", "n", "a", "m", "e">>
sUri == <<"u", "r", "i">>
sNc == <<"n", "c">>

\* the (username, realm, nonce, nc) a qop=auth Authorization value carries
NcKey(a) ==
    <<AuthParam(a, sUsername), AuthParam(a, sRealm), AuthParam(a, sNonce),
      AuthParam(a, sNc)>>

\* ncCount after a request with header map hd was sent (counts stop at 2)
Counted(hd) ==
    LET a == HGet(hd, "Authorization")
    IN  IF AuthParam(a, sQop) # sAuth THEN ncCount
        ELSE LET k == NcKey(a)
             IN  IF k \in DOMAIN ncCount THEN (k :> 2) @@ ncCount
                 ELSE (k :> 1) @@ ncCount

(***************************************************************************)
(* Transport.RoundTrip, one action per step of a call.                     *)
(***************************************************************************)
\* (mutant) an error is wrapped before it is returned
ReturnWrapped(p, r) ==
    /\ ret' = [ret EXCEPT ![p] =
                 [r EXCEPT !.err = IF @ = "nil" THEN @ ELSE "wrapped"]]
    /\ pc' = [pc EXCEPT ![p] = "idle"]

\* how RoundTrip's return leaves caller p
Return(p, r) ==
    /\ ret' = [ret EXCEPT ![p] = r]
    /\ pc' = [pc EXCEPT ![p] = "idle"]

\* the request as the underlying transport gets it: body is what its Body
\* stream holds
Wire(rq, hd, body) ==
    [Method |-> rq.Method, URI |-> rq.URI, Header |-> hd, Body |-> body]

\* (mutant) RoundTrip without the nil check of the transport
CallNoNilCheck(p) ==
    /\ pc[p] = "idle"
    /\ calls < MaxCalls
    /\ calls' = calls + 1
    /\ \E r \in Requests :
         /\ req' = [req EXCEPT ![p] = r]
         /\ orig' = [orig EXCEPT ![p] = r]
    /\ buf' = [buf EXCEPT ![p] = <<>>]
    /\ resp1' = [resp1 EXCEPT ![p] = NilResp]
    /\ respClosed' = [respClosed EXCEPT ![p] = FALSE]
    /\ pend' = [pend EXCEPT ![p] = NoPend]
    /\ sent' = [sent EXCEPT ![p] = <<>>]
    /\ got' = [got EXCEPT ![p] = <<>>]
    /\ nparse' = [nparse EXCEPT ![p] = 0]
    /\ nauth' = [nauth EXCEPT ![p] = 0]
    /\ ret' = [ret EXCEPT ![p] = NoRet]
    /\ pc' = [pc EXCEPT ![p] = "reuse"]
    /\ UNCHANGED <<shared, ncCount, race, answered, pure, syncv, fritzv>>

\* Transport.Client(): the client (t: an http.Client over this transport) and
\* the error it returns
Client ==
    IF ~hasTransport THEN [client |-> "nil", err |-> "ErrNilTransport"]
    ELSE [client |-> "t", err |-> "nil"]

\* the caller calls RoundTrip(req); the nil check of the transport
Call(p) ==
    /\ pc[p] = "idle"
    /\ calls < MaxCalls
    /\ calls' = calls + 1
    /\ \E r \in Requests :
         /\ req' = [req EXCEPT ![p] = r]
         /\ orig' = [orig EXCEPT ![p] = r]
    /\ buf' = [buf EXCEPT ![p] = <<>>]
    /\ resp1' = [resp1 EXCEPT ![p] = NilResp]
    /\ respClosed' = [respClosed EXCEPT ![p] = FALSE]
    /\ pend' = [pend EXCEPT ![p] = NoPend]
    /\ sent' = [sent EXCEPT ![p] = <<>>]
    /\ got' = [got EXCEPT ![p] = <<>>]
    /\ nparse' = [nparse EXCEPT ![p] = 0]
    /\ nauth' = [nauth EXCEPT ![p] = 0]
    /\ IF hasTransport
       THEN /\ ret' = [ret EXCEPT ![p] = NoRet]
            /\ pc' = [pc EXCEPT ![p] = "reuse"]
       ELSE Return(p, [resp |-> NilResp, err |-> "ErrNilTransport"])
    /\ UNCHANGED <<shared, ncCount, race, answered, pure, syncv, fritzv>>

\* (mutant) the cached value is never attached
ReuseHeaderKeep(hd, v1, v2) == hd

\* the header map of req after
\* if t.auth != "" { req.Header.Set("Authorization", t.auth) },
\* v1 and v2 being what the two loads of t.auth yield
ReuseHeader(hd, v1, v2) ==
    IF v1 # EmptyStr THEN HSet(hd, "Authorization", v2) ELSE hd

Reuse(p) ==
    /\ pc[p] = "reuse"
    /\ \E v1 \in ReadAuth, v2 \in ReadAuth :
         req' = [req EXCEPT ![p].Header = ReuseHeader(@, v1, v2)]
    /\ race' = (race \/ writers # {})
    /\ pc' = [pc EXCEPT ![p] = "first"]
    /\ UNCHANGED <<shared, buf, resp1, respClosed, pend, ret, orig, sent, got,
                   nparse, nauth, calls, ncCount, answered, pure, syncv, fritzv>>

\* (mutant) only a 200 counts as needing no authentication
NoAuthRequiredOnly200(o) == o.err # "nil" \/ o.resp.StatusCode = 200

\* if err != nil || resp.StatusCode != 401 { return resp, err }
NoAuthRequired(o) == o.err # "nil" \/ o.resp.StatusCode # 401

\* req.Body = newTeeReadCloser(req.Body, body);
\* resp, err := t.Transport.RoundTrip(req), and the return unless a 401.
\* The underlying transport reads n bytes of the body before it answers; with
\* a nil body, a Read or a Close of the tee calls a method of a nil interface.
First(p) ==
    /\ pc[p] = "first"
    /\ req' = [req EXCEPT ![p].Body = [@ EXCEPT !.nil = FALSE, !.tee = TRUE]]
    /\ sent' = [sent EXCEPT ![p] =
                  Append(@, Wire(req[p], req[p].Header, req[p].Body.data))]
    /\ ncCount' = Counted(req[p].Header)
    /\ \/ \E n \in 0..Len(req[p].Body.data), o \in Outcomes(1) :
            /\ buf' = [buf EXCEPT ![p] = SubSeq(req[p].Body.data, 1, n)]
            /\ got' = [got EXCEPT ![p] = Append(@, o)]
            /\ IF NoAuthRequired(o)
               THEN /\ Return(p, o)
                    /\ UNCHANGED <<resp1, answered>>
               ELSE /\ resp1' = [resp1 EXCEPT ![p] = o.resp]
                    /\ pc' = [pc EXCEPT ![p] = "challenge"]
                    /\ answered' = NoAnswer
                    /\ UNCHANGED ret
       \/ /\ req[p].Body.nil
          /\ pc' = [pc EXCEPT ![p] = "panic"]
          /\ UNCHANGED <<buf, resp1, ret, got, answered>>
    /\ UNCHANGED <<shared, respClosed, pend, orig, nparse, nauth, calls, race,
                   pure, syncv, fritzv>>

\* challenge, err := parseChallenge(resp.Header.Get("WWW-Authenticate"));
\* cr := t.newCredentials(req, challenge); cr.authorize()
Challenge(p) ==
    /\ pc[p] = "challenge"
    /\ nparse' = [nparse EXCEPT ![p] = @ + 1]
    /\ LET pr == parseChallenge(resp1[p].WWWAuth)
       IN  CASE pr.err = "panic" ->
                  /\ pc' = [pc EXCEPT ![p] = "panic"]
                  /\ UNCHANGED <<pend, ret, nauth>>
             [] pr.err = "ErrBadChallenge" ->
                  /\ Return(p, [resp |-> resp1[p],
                                err |-> "failed to parse challenge"])
                  /\ UNCHANGED <<pend, nauth>>
             [] OTHER ->
                  /\ \E rnd \in RandBytes :
                       pend' = [pend EXCEPT ![p] =
                                  authorize(newCredentials(req[p], pr.c), rnd)]
                  /\ nauth' = [nauth EXCEPT ![p] = @ + 1]
                  /\ pc' = [pc EXCEPT ![p] = "store"]
                  /\ UNCHANGED ret
    /\ UNCHANGED <<shared, req, buf, resp1, respClosed, orig, sent, got,
                   calls, ncCount, race, answered, pure, syncv, fritzv>>

\* t.auth, err = cr.authorize(): the store to t.auth begins
StoreBegin(p) ==
    /\ pc[p] = "store"
    /\ writers' = writers \cup {p}
    /\ race' = (race \/ writers # {})
    /\ pc' = [pc EXCEPT ![p] = "storing"]
    /\ UNCHANGED <<procs, hasTransport, auth, req, buf, resp1, respClosed,
                   pend, ret, orig, sent, got, nparse, nauth, calls, ncCount,
                   answered, pure, syncv, fritzv>>

\* (mutant) the body of the 401 response is left open
StoreEndNoClose(p) ==
    /\ pc[p] = "storing"
    /\ auth' \in StoredAuth(p)
    /\ writers' = writers \ {p}
    /\ IF pend[p].err # "nil"
       THEN /\ Return(p, [resp |-> resp1[p], err |-> pend[p].err])
            /\ UNCHANGED answered
       ELSE /\ pc' = [pc EXCEPT ![p] = "retry"]
            /\ answered' = [val |-> pend[p].val, at |-> calls]
            /\ UNCHANGED ret
    /\ UNCHANGED <<procs, hasTransport, req, buf, resp1, respClosed, pend, orig,
                   sent, got, nparse, nauth, calls, ncCount, race, pure, syncv, fritzv>>

\* the store is complete; if err != nil { return resp, err };
\* resp.Body.Close()
StoreEnd(p) ==
    /\ pc[p] = "storing"
    /\ auth' \in StoredAuth(p)
    /\ writers' = writers \ {p}
    /\ IF pend[p].err # "nil"
       THEN /\ Return(p, [resp |-> resp1[p], err |-> pend[p].err])
            /\ UNCHANGED <<respClosed, answered>>
       ELSE /\ respClosed' = [respClosed EXCEPT ![p] = TRUE]
            /\ pc' = [pc EXCEPT ![p] = "retry"]
            /\ answered' = [val |-> pend[p].val, at |-> calls]
            /\ UNCHANGED ret
    /\ UNCHANGED <<procs, hasTransport, req, buf, resp1, pend, orig, sent,
                   got, nparse, nauth, calls, ncCount, race, pure, syncv, fritzv>>

\* (mutant) the header map is copied and Authorization is not set
RetryHeaderCopyOnly(hd, v) == [k \in DOMAIN hd |-> hd[k]]

\* the header map authReq gets: a copy of req.Header with Authorization set
\* to v, what the load of t.auth yields
RetryHeader(hd, v) == HSet([k \in DOMAIN hd |-> hd[k]], "Authorization", v)

\* the body authReq gets: ioutil.NopCloser(body), the bytes the tee wrote
RetryBody(p) == buf[p]

\* (mutant) a 401 on the retry is answered again
AfterRetryAgain(p, o) ==
    IF NoAuthRequired(o) THEN Return(p, o) /\ UNCHANGED resp1
    ELSE /\ resp1' = [resp1 EXCEPT ![p] = o.resp]
         /\ pc' = [pc EXCEPT ![p] = "challenge"]
         /\ UNCHANGED ret

\* return t.Transport.RoundTrip(authReq)
AfterRetry(p, o) == Return(p, o) /\ UNCHANGED resp1

\* authReq := copy of req with a copied header map, Authorization = t.auth
\* and Body = NopCloser(body); return t.Transport.RoundTrip(authReq)
Retry(p) ==
    /\ pc[p] = "retry"
    /\ \E v \in ReadAuth :
         /\ sent' = [sent EXCEPT ![p] =
                       Append(@, Wire(req[p], RetryHeader(req[p].Header, v),
                                      RetryBody(p)))]
         /\ ncCount' = Counted(sent'[p][Len(sent'[p])].Header)
    /\ \E o \in Outcomes(2) :
         /\ got' = [got EXCEPT ![p] = Append(@, o)]
         /\ AfterRetry(p, o)
    /\ race' = (race \/ writers # {})
    /\ UNCHANGED <<shared, req, buf, respClosed, pend, orig, nparse, nauth,
                   calls, answered, pure, syncv, fritzv>>

Next ==
    \/ \E p \in procs : Call(p)
    \/ \E p \in procs : Reuse(p)
    \/ \E p \in procs : First(p)
    \/ \E p \in procs : Challenge(p)
    \/ \E p \in procs : StoreBegin(p)
    \/ \E p \in procs : StoreEnd(p)
    \/ \E p \in procs : Retry(p)

Spec == Init /\ [][Next]_vars

SpecConc == InitConc /\ [][Next]_vars

(***************************************************************************)
(* parseChallenge and credentials.authorize called on their own.           *)
(***************************************************************************)
Parse ==
    /\ parsed = NotParsed
    /\ parsed' = parseChallenge(input)
    /\ UNCHANGED <<shared, locals, history, fields, input, cred, header, term,
                   md, syncv, fritzv>>

NextParse == Parse

SpecParse == InitParse /\ [][NextParse]_vars

Authorize ==
    /\ header = NotAuthorized
    /\ \E rnd \in RandBytes : header' = authorize(cred, rnd)
    /\ UNCHANGED <<shared, locals, history, fields, input, parsed, cred, term,
                   md, syncv, fritzv>>

NextAuthorize == Authorize

SpecAuthorize == InitAuthorize /\ [][NextAuthorize]_vars

(***************************************************************************)
(* credentials.resp with h computed: resp yields the digest as a term of   *)
(* nested h(...), and each h is computed in turn, innermost first, one MD5  *)
(* operation per step.                                                     *)
(***************************************************************************)
\* cr.resp("")
Respond ==
    /\ term = EmptyStr
    /\ ~md.on
    /\ \E rnd \in RandBytes : term' = resp(cred, EmptyStr, rnd).val
    /\ UNCHANGED <<shared, locals, history, fields, input, parsed, cred, header,
                   md, syncv, fritzv>>

\* h(data) for the innermost h not computed yet: md5.New() and
\* io.WriteString(hf, data)
HashStart ==
    /\ ~md.on
    /\ FirstClose(term) > 0
    /\ LET close == FirstClose(term)
           open == LastOpen(term, close)
           data == SubSeq(term, open + 4, close - 1)
           padded == Pad([i \in DOMAIN data |-> Code(data[i])])
       IN  md' = [on |-> TRUE, lo |-> open, hi |-> close,
                  blocks |-> [k \in 1..(Len(padded) \div 64) |->
                                BlockWords(padded, k)],
                  bi |-> 1, i |-> 0, hw |-> InitWords, st |-> InitWords]
    /\ UNCHANGED <<shared, locals, history, fields, input, parsed, cred, header,
                   term, syncv, fritzv>>

\* one of the 64 operations on the current block
HashStep ==
    /\ md.on
    /\ md.i < 64
    /\ md' = [md EXCEPT !.st = Md5Step(md.st, md.blocks[md.bi], md.i),
                        !.i = @ + 1]
    /\ UNCHANGED <<shared, locals, history, fields, input, parsed, cred, header,
                   term, syncv, fritzv>>

\* the end of a block; after the last one, hf.Sum(nil) in hex takes the
\* place of h(data)
HashBlock ==
    /\ md.on
    /\ md.i = 64
    /\ LET sum == [j \in 1..4 |-> WAdd(md.hw[j], md.st[j])]
       IN  IF md.bi < Len(md.blocks)
           THEN /\ md' = [md EXCEPT !.hw = sum, !.st = sum, !.bi = @ + 1,
                                    !.i = 0]
                /\ UNCHANGED term
           ELSE /\ md' = NoHash
                /\ term' = SubSeq(term, 1, md.lo - 1) \o Md5Hex(sum)
                             \o SubSeq(term, md.hi + 1, Len(term))
    /\ UNCHANGED <<shared, locals, history, fields, input, parsed, cred, header,
                   syncv, fritzv>>

NextDigest ==
    \/ Respond
    \/ HashStart
    \/ HashStep
    \/ HashBlock

SpecDigest == InitDigest /\ [][NextDigest]_vars

(***************************************************************************)
(* Sync (src/sync/sync.go).  The target is a store that keeps what it is   *)
(* given: ReadAll returns its contacts keyed by ID, Delete removes the     *)
(* contacts with the IDs given, Update replaces them, Add stores each      *)
(* contact under a fresh ID; a call that fails leaves the store as it is.  *)
(***************************************************************************)
\* (mutant) equal without the comparison of the images
equalNoImage(a, b) ==
    /\ a.Email = b.Email
    /\ a.FullName = b.FullName
    /\ \/ Len(a.Numbers.list) = 0 /\ Len(b.Numbers.list) = 0
       \/ a.Numbers = b.Numbers

\* equal(a, b); reflect.DeepEqual tells a nil slice from an empty one
equal(a, b) ==
    /\ a.Email = b.Email
    /\ a.FullName = b.FullName
    /\ a.Image = b.Image
    /\ \/ Len(a.Numbers.list) = 0 /\ Len(b.Numbers.list) = 0
       \/ a.Numbers = b.Numbers

\* (mutant) the updated contact keeps the source's ID
UpdatedKeepID(oldContact, newContact) ==
    [newContact EXCEPT !.SyncID = newContact.ID]

\* newContact.SyncID = newContact.ID; newContact.ID = oldContact.ID
Updated(oldContact, newContact) ==
    [newContact EXCEPT !.SyncID = newContact.ID, !.ID = oldContact.ID]

\* (mutant) the added contact gets no SyncID
AddedNoSyncID(newContact) == [newContact EXCEPT !.ID = ""]

\* newContact.SyncID = newContact.ID; newContact.ID = ""
Added(newContact) == [newContact EXCEPT !.SyncID = newContact.ID, !.ID = ""]

\* the orders a range over the map m may visit its keys in
Orders(m) ==
    {o \in [1..Cardinality(DOMAIN m) -> DOMAIN m] :
       \A i, j \in DOMAIN o : i # j => o[i] # o[j]}

\* m without key k: delete(m, k)
MapDelete(m, k) == [x \in DOMAIN m \ {k} |-> m[x]]

\* m1 overwritten by the entries of m2: for k, c := range m2 { m1[k] = c }
MapMerge(m1, m2) ==
    [k \in DOMAIN m1 \cup DOMAIN m2 |-> IF k \in DOMAIN m2 THEN m2[k] ELSE m1[k]]

\* the loop over old, visiting the keys o[i..]; st is [new, upd, del]:
\* newContacts, toBeUpdated and toBeDeleted so far
RECURSIVE LoopOld(_, _, _)
LoopOld(o, i, st) ==
    IF i > Len(o) THEN st
    ELSE LET oldContact == old[o[i]]
         IN  IF oldContact.SyncID \in DOMAIN st.new
             THEN LET newContact == st.new[oldContact.SyncID]
                      rest == MapDelete(st.new, oldContact.SyncID)
                  IN  IF ~equal(oldContact, newContact)
                      THEN LoopOld(o, i + 1,
                                   [st EXCEPT !.new = rest,
                                              !.upd = Append(@, Updated(oldContact,
                                                                        newContact))])
                      ELSE LoopOld(o, i + 1, [st EXCEPT !.new = rest])
             ELSE LoopOld(o, i + 1, [st EXCEPT !.del = Append(@, oldContact)])

\* (mutant) an error of a read is ignored
ReadCheckIgnore(err, next) ==
    /\ spc' = next
    /\ UNCHANGED sret

\* if err != nil { return err } after a ReadAll
ReadCheck(err, next) ==
    IF err # "nil"
    THEN /\ sret' = [sret EXCEPT ![runs] = err]
         /\ spc' = "done"
    ELSE /\ spc' = next
         /\ UNCHANGED sret

\* (mutant) an error of a write is ignored
WriteCheckIgnore(err, next) ==
    IF next = "done"
    THEN /\ sret' = [sret EXCEPT ![runs] = "nil"]
         /\ spc' = "done"
    ELSE /\ spc' = next
         /\ UNCHANGED sret

\* if err := to.Delete(...); err != nil { return err }, and likewise after
\* Update and Add; after Add, return nil
WriteCheck(err, next) ==
    IF err # "nil"
    THEN /\ sret' = [sret EXCEPT ![runs] = err]
         /\ spc' = "done"
    ELSE IF next = "done"
    THEN /\ sret' = [sret EXCEPT ![runs] = "nil"]
         /\ spc' = "done"
    ELSE /\ spc' = next
         /\ UNCHANGED sret

\* a call on a source or on the target, as the history records it
Op(name, arg, err) == [run |-> runs, op |-> name, arg |-> arg, err |-> err]

\* Sync is called
SyncCall ==
    /\ spc \in {"idle", "done"}
    /\ runs < MaxRuns
    /\ runs' = runs + 1
    /\ sret' = Append(sret, "none")
    /\ spc' = "readTarget"
    /\ old' = EmptyMap
    /\ newContacts' = EmptyMap
    /\ merged' = EmptyMap
    /\ nread' = 0
    /\ toBeDeleted' = <<>>
    /\ toBeUpdated' = <<>>
    /\ toBeAdded' = <<>>
    /\ UNCHANGED <<shared, locals, history, pure, fritzv, from, tgt, ops>>

\* old, err := to.ReadAll([]string{})
ReadTarget ==
    /\ spc = "readTarget"
    /\ \E err \in {"nil", "errReadTarget"} :
         /\ ops' = Append(ops, Op("ReadTarget", <<>>, err))
         /\ old' = IF err = "nil" THEN tgt ELSE EmptyMap
         /\ ReadCheck(err, "readSources")
    /\ UNCHANGED <<shared, locals, history, pure, fritzv, from, tgt, newContacts, nread,
                   toBeDeleted, toBeUpdated, toBeAdded, merged, runs>>

\* one round of the loop over from: n, err := r.ReadAll(categories) and the
\* merge of n into newContacts
ReadSource ==
    /\ spc = "readSources"
    /\ nread < Len(from)
    /\ nread' = nread + 1
    /\ \E err \in {"nil", "errReadSource"} :
         /\ ops' = Append(ops, Op("ReadSource", <<nread + 1>>, err))
         /\ newContacts' = IF err = "nil"
                           THEN MapMerge(newContacts, from[nread + 1])
                           ELSE newContacts
         /\ ReadCheck(err, "readSources")
    /\ UNCHANGED <<shared, locals, history, pure, fritzv, from, tgt, old, toBeDeleted,
                   toBeUpdated, toBeAdded, merged, runs>>

\* the loops over old and over what is left of newContacts
Classify ==
    /\ spc = "readSources"
    /\ nread = Len(from)
    /\ merged' = newContacts
    /\ \E o \in Orders(old) :
         LET st == LoopOld(o, 1, [new |-> newContacts, upd |-> <<>>, del |-> <<>>])
         IN  /\ toBeDeleted' = st.del
             /\ toBeUpdated' = st.upd
             /\ newContacts' = st.new
             /\ \E o2 \in Orders(st.new) :
                  toBeAdded' = [i \in DOMAIN o2 |-> Added(st.new[o2[i]])]
    /\ spc' = "delete"
    /\ UNCHANGED <<shared, locals, history, pure, fritzv, from, tgt, old, nread, ops,
                   sret, runs>>

\* to.Delete(toBeDeleted)
Delete ==
    /\ spc = "delete"
    /\ \E err \in {"nil", "errDelete"} :
         /\ ops' = Append(ops, Op("Delete", toBeDeleted, err))
         /\ tgt' = IF err # "nil" THEN tgt
                   ELSE [id \in DOMAIN tgt \
                                 {toBeDeleted[i].ID : i \in DOMAIN toBeDeleted} |->
                           tgt[id]]
         /\ WriteCheck(err, "update")
    /\ UNCHANGED <<shared, locals, history, pure, fritzv, from, old, newContacts, nread,
                   toBeDeleted, toBeUpdated, toBeAdded, merged, runs>>

\* to.Update(toBeUpdated)
Update ==
    /\ spc = "update"
    /\ \E err \in {"nil", "errUpdate"} :
         /\ ops' = Append(ops, Op("Update", toBeUpdated, err))
         /\ tgt' = IF err # "nil" THEN tgt
                   ELSE [id \in DOMAIN tgt |->
                           IF \E i \in DOMAIN toBeUpdated : toBeUpdated[i].ID = id
                           THEN toBeUpdated[CHOOSE i \in DOMAIN toBeUpdated :
                                              toBeUpdated[i].ID = id]
                           ELSE tgt[id]]
         /\ WriteCheck(err, "add")
    /\ UNCHANGED <<shared, locals, history, pure, fritzv, from, old, newContacts, nread,
                   toBeDeleted, toBeUpdated, toBeAdded, merged, runs>>

\* the target with the contacts l[i..] stored under fresh IDs
RECURSIVE StoreAdded(_, _, _)
StoreAdded(t, l, i) ==
    IF i > Len(l) THEN t
    ELSE LET id == TargetIDs[CHOOSE n \in DOMAIN TargetIDs :
                               /\ TargetIDs[n] \notin DOMAIN t
                               /\ \A m \in 1..(n - 1) : TargetIDs[m] \in DOMAIN t]
         IN  StoreAdded(MapMerge(t, [x \in {id} |-> [l[i] EXCEPT !.ID = id]]),
                        l, i + 1)

\* to.Add(toBeAdded), and return nil
Add ==
    /\ spc = "add"
    /\ \E err \in {"nil", "errAdd"} :
         /\ ops' = Append(ops, Op("Add", toBeAdded, err))
         /\ tgt' = IF err # "nil" THEN tgt ELSE StoreAdded(tgt, toBeAdded, 1)
         /\ WriteCheck(err, "done")
    /\ UNCHANGED <<shared, locals, history, pure, fritzv, from, old, newContacts, nread,
                   toBeDeleted, toBeUpdated, toBeAdded, merged, runs>>

NextSync ==
    \/ SyncCall
    \/ ReadTarget
    \/ ReadSource
    \/ Classify
    \/ Delete
    \/ Update
    \/ Add

SpecSync == InitSync /\ [][NextSync]_vars

(***************************************************************************)
(* Properties of Transport.RoundTrip.                                      *)
(***************************************************************************)
\* caller p's call has returned
Returned(p) == pc[p] = "idle" /\ ret[p].err # "none"

\* the Authorization header of a request
Authz(rq) == HGet(rq.Header, "Authorization")

\* the first attempt of p's call got a response with status 401
First401(p) ==
    /\ Len(got[p]) >= 1
    /\ got[p][1].err = "nil"
    /\ got[p][1].resp.StatusCode = 401

\* a call hands at most two requests to the underlying transport; once the
\* second is answered, the call has returned with that answer
TwoAttempts ==
    \A p \in AllProcs :
      /\ Len(sent[p]) <= 2
      /\ Len(sent[p]) = 2 =>
           /\ pc[p] = "idle"
           /\ Len(got[p]) = 2
           /\ ret[p] = got[p][2]

\* the order of the steps of a call
Rank(x) ==
    CASE x = "reuse" -> 1
      [] x = "first" -> 2
      [] x = "challenge" -> 3
      [] x = "store" -> 4
      [] x = "storing" -> 5
      [] x = "retry" -> 6
      [] OTHER -> 7

\* every step of a call moves it forward: a call is over (returned, or
\* stopped by a panic) within six steps
Forward ==
    \A p \in AllProcs :
      pc'[p] # pc[p] =>
        \/ pc[p] = "idle" /\ pc'[p] = "reuse"
        \/ pc[p] # "idle" /\ Rank(pc'[p]) > Rank(pc[p])

C2_RetryCarriesCredentials ==
    \A p \in AllProcs :
      (Returned(p) /\ First401(p) /\ nauth[p] = 1 /\ pend[p].err = "nil") =>
        /\ Len(sent[p]) = 2
        /\ Authz(sent[p][2]) # EmptyStr
        /\ Len(got[p]) = 2
        /\ ret[p] = got[p][2]

\* C2's case: 401, then 200 on the retry
C2_ChallengeThen200 ==
    \E p \in AllProcs :
      /\ Returned(p) /\ First401(p) /\ nauth[p] = 1 /\ pend[p].err = "nil"
      /\ ret[p].resp.id = 2
      /\ ret[p].resp.StatusCode = 200

\* C3 (as claimed): the body of the retry request is the complete body of
\* the caller's request.
C3_RetryBodyComplete ==
    \A p \in AllProcs :
      Len(sent[p]) = 2 => sent[p][2].Body = orig[p].Body.data

\* C4: once the first attempt is answered with a response that is not a 401,
\* the call has returned that response, after one request, without a call of
\* parseChallenge or authorize.
C4_Non401PassesThrough ==
    \A p \in AllProcs :
      (Len(got[p]) >= 1 /\ got[p][1].err = "nil"
         /\ got[p][1].resp.StatusCode # 401) =>
        /\ pc[p] = "idle"
        /\ ret[p] = got[p][1]
        /\ Len(sent[p]) = 1
        /\ Len(got[p]) = 1
        /\ nparse[p] = 0
        /\ nauth[p] = 0
        /\ pend[p] = NoPend

\* C4's case: a 500 on the first attempt of a call that attached the cached
\* value
C4_First500 ==
    \E p \in AllProcs :
      /\ Returned(p)
      /\ Len(got[p]) = 1
      /\ got[p][1].resp.StatusCode = 500
      /\ Authz(sent[p][1]) # EmptyStr

\* a WWW-Authenticate value of the grammar: "Digest ", then comma-separated
\* key=value pairs with recognized keys
WellFormed(w) ==
    /\ HasPrefix(w, sDigestSp)
    /\ LET sl == Split(Slice(w, 7, Len(w)), ",")
       IN  \A i \in DOMAIN sl :
             LET r == SplitN2(sl[i], "=")
             IN  Len(r) = 2 /\ KeyField(Trim(r[1], {" "})) # ""

\* a well-formed challenge that demands another algorithm than MD5 or
\* another qop than auth or none
Unsupported(w) ==
    /\ WellFormed(w)
    /\ LET c == parseChallenge(w).c
       IN  c.Algorithm # sMD5 \/ c.Qop \notin {sAuth, EmptyStr}

\* C5 (as claimed): a call whose first attempt got a 401 with a malformed or
\* unsupported challenge ends by returning that 401 response and an error,
\* after one request.
C5_BadChallengeReturns401 ==
    \A p \in AllProcs :
      (First401(p) /\ pc[p] \in {"idle", "panic"}
         /\ LET w == got[p][1].resp.WWWAuth
            IN  ~WellFormed(w) \/ Unsupported(w)) =>
        /\ pc[p] = "idle"
        /\ ret[p].resp = got[p][1].resp
        /\ ret[p].err \notin {"nil", "none"}
        /\ Len(sent[p]) = 1

\* a call started after a challenge was answered, no first attempt having
\* got a 401 since
Later == answered.val # EmptyStr /\ calls > answered.at

\* C6: the value cached by an answered challenge stays the cached value until
\* a first attempt gets a 401, and every call started meanwhile carries it on
\* its first attempt, parses no challenge and computes no credentials.
C6_CachedValueReused ==
    /\ answered.val # EmptyStr => auth = answered.val
    /\ Later =>
         \A p \in procs :
           /\ nparse[p] = 0
           /\ nauth[p] = 0
           /\ pc[p] = "first" => Authz(req[p]) = answered.val
           /\ Len(sent[p]) >= 1 =>
                Len(sent[p]) = 1 /\ Authz(sent[p][1]) = answered.val

\* C6's case: a later call has returned a response of its first attempt
C6_LaterCallReturned ==
    /\ Later
    /\ \E p \in procs :
         Returned(p) /\ Len(sent[p]) = 1 /\ ret[p].resp.StatusCode = 200

\* C7 (as claimed): no load of or store to t.auth happens while another call
\* is storing to it.
C7_AuthAccessExclusive == ~race

\* C8 (as claimed): no (username, realm, nonce, nc) is sent twice with
\* qop=auth credentials.
C8_NonceCountUnique == \A k \in DOMAIN ncCount : ncCount[k] <= 1

\* C9 (as claimed): the uri of a Digest Authorization header is the
\* path+query of the request that carries it.
C9_UriMatchesRequest ==
    \A p \in AllProcs :
      \A i \in DOMAIN sent[p] :
        HasPrefix(Authz(sent[p][i]), sDigestSp) =>
          AuthParam(Authz(sent[p][i]), sUri) = sent[p][i].URI

\* C10 (as claimed): when RoundTrip has returned, the header map of the
\* caller's request is as the caller passed it.
C10_CallerHeaderUntouched ==
    \A p \in AllProcs : Returned(p) => req[p].Header = orig[p].Header

\* C11 (as claimed): once t.auth is non-empty, no step of a RoundTrip call
\* makes it empty again.
C11_NeverBackToUnauthenticated ==
    [][auth # EmptyStr => auth' # EmptyStr]_vars

\* the first attempt of p's call got a 401 with a challenge that parses and
\* that authorize supports
Answerable(p) ==
    /\ First401(p)
    /\ WellFormed(got[p][1].resp.WWWAuth)
    /\ ~Unsupported(got[p][1].resp.WWWAuth)

\* C12: when a call whose first attempt got a 401 with a parsable, supported
\* challenge has returned, whatever the retry's outcome, t.auth is non-empty,
\* is the value authorize computed in this call, carries the realm, nonce,
\* opaque and qop of that challenge, and is the Authorization header of the
\* call's retry request.
C12_CacheHoldsLatestAnswer ==
    \A p \in AllProcs :
      (Returned(p) /\ Answerable(p)) =>
        LET c == parseChallenge(got[p][1].resp.WWWAuth).c
        IN  /\ auth # EmptyStr
            /\ auth = pend[p].val
            /\ AuthParam(auth, sRealm) = c.Realm
            /\ AuthParam(auth, sNonce) = c.Nonce
            /\ AuthParam(auth, sOpaque) = c.Opaque
            /\ AuthParam(auth, sQop) = c.Qop
            /\ Len(sent[p]) = 2
            /\ Authz(sent[p][2]) = auth

\* C12's case: a call that attached a cached value got a 401 with another
\* challenge, replaced the value, and its retry failed with a network error
C12_ReplacedThenNetError ==
    \E p \in AllProcs :
      /\ Returned(p) /\ Answerable(p)
      /\ Authz(sent[p][1]) # EmptyStr
      /\ AuthParam(Authz(sent[p][1]), sNonce) # AuthParam(auth, sNonce)
      /\ ret[p].err = "net2"

\* C13: a call on a transport without an underlying transport has returned
\* no response and ErrNilTransport, having handed no request to any
\* transport, parsed and computed nothing, and left the caller's request as
\* it was; Client() returns no client and the same error; and the step of
\* such a call leaves t.auth as it is.
C13_NilTransportFails ==
    /\ [](~hasTransport =>
            /\ Client = [client |-> "nil", err |-> "ErrNilTransport"]
            /\ \A p \in procs :
                 /\ pc[p] = "idle"
                 /\ sent[p] = <<>>
                 /\ got[p] = <<>>
                 /\ nparse[p] = 0 /\ nauth[p] = 0
                 /\ req[p] = orig[p]
                 /\ calls > 0 =>
                      ret[p] = [resp |-> NilResp, err |-> "ErrNilTransport"])
    /\ [][~hasTransport => auth' = auth]_vars

\* C13's case: a call on a transport without an underlying transport has
\* returned
C13_NilTransportCalled ==
    \E p \in procs :
      ~hasTransport /\ calls = 2 /\ ret[p].err = "ErrNilTransport"

\* C14: once an attempt of a call is answered with a network error, the call
\* has returned exactly what the underlying transport returned, and that
\* attempt is the call's last: one request for an error on the first attempt,
\* two for an error on the retry.
C14_NetErrorEndsCall ==
    \A p \in AllProcs :
      \A k \in DOMAIN got[p] :
        got[p][k].err # "nil" =>
          /\ pc[p] = "idle"
          /\ ret[p] = got[p][k]
          /\ Len(got[p]) = k
          /\ Len(sent[p]) = k

\* C14's case: the retry failed with a network error
C14_RetryNetError ==
    \E p \in AllProcs :
      Returned(p) /\ Len(sent[p]) = 2 /\ got[p][2].err = "net2"

\* p's call ended without a challenge that parses: with the nil-transport
\* error, with a network error or a response that is not a 401 on the first
\* attempt, or with a malformed challenge
EndedUnchallenged(p) ==
    /\ Returned(p)
    /\ \/ ret[p].err = "ErrNilTransport"
       \/ Len(got[p]) = 1 /\ got[p][1].err # "nil"
       \/ Len(got[p]) = 1 /\ got[p][1].resp.StatusCode # 401
       \/ First401(p) /\ ~WellFormed(got[p][1].resp.WWWAuth)

\* C24: t.auth changes only in the step of a call whose first attempt got a
\* 401 with a challenge that parses; and when a call has ended with the
\* nil-transport error, with a network error or a response other than 401 on
\* its first attempt, or with a malformed challenge, t.auth is the value the
\* call found cached (the one its first request carried, if any).
C24_CacheChangesOnlyOnChallenge ==
    /\ [][auth' # auth =>
            \E p \in procs :
              /\ pc[p] = "storing"
              /\ First401(p)
              /\ WellFormed(got[p][1].resp.WWWAuth)]_vars
    /\ [](\A p \in procs :
            EndedUnchallenged(p) =>
              /\ nauth[p] = 0
              /\ Len(sent[p]) = 1 => auth = Authz(sent[p][1])
              /\ Len(sent[p]) = 0 => auth = EmptyStr)

\* C24's case: a call that found a cached value has ended with a malformed
\* challenge
C24_MalformedAfterCached ==
    \E p \in procs :
      /\ EndedUnchallenged(p)
      /\ First401(p)
      /\ auth # EmptyStr

\* C25: the body of the 401 response is closed once the challenge is answered
\* and the retry is next, so before the retry request is handed over, and
\* only then; a 401 response returned to the caller has not been closed.
C25_ClosedIffRetry ==
    \A p \in AllProcs :
      /\ respClosed[p] <=> (pc[p] = "retry" \/ Len(sent[p]) = 2)
      /\ (Returned(p) /\ First401(p) /\ ret[p].resp = got[p][1].resp) =>
           ~respClosed[p] /\ Len(sent[p]) = 1

\* C25's case: the retry was sent
C25_RetrySent ==
    \E p \in AllProcs : Len(sent[p]) = 2 /\ respClosed[p]

\* C26 (as claimed): the Authorization header of a call's retry request is
\* the non-empty value authorize computed in that call, with concurrent calls
\* too.
C26_RetryCarriesOwnValue ==
    \A p \in AllProcs :
      Len(sent[p]) = 2 =>
        /\ Authz(sent[p][2]) # EmptyStr
        /\ Authz(sent[p][2]) = pend[p].val

\* C27 (as claimed): a call with a request without a body does not fail when
\* the underlying transport reads or closes the body it is handed, and its
\* retry carries an empty body.
C27_NilBodyHandled ==
    \A p \in AllProcs :
      orig[p].Body.nil =>
        /\ pc[p] # "panic"
        /\ Len(sent[p]) = 2 => sent[p][2].Body = <<>>

(***************************************************************************)
(* Properties of parseChallenge.                                           *)
(***************************************************************************)
\* C15 (as claimed): parseChallenge ends with a challenge or with
\* ErrBadChallenge, for every input.
C15_ParseTotal == parsed.err \in {"none", "nil", "ErrBadChallenge"}

\* C16 (as claimed): parseChallenge fails with ErrBadChallenge for every
\* input whose first seven characters are not "Digest ".
C16_SchemeExact ==
    (parsed # NotParsed /\ ~HasPrefix(input, sDigestSp)) =>
      parsed.err = "ErrBadChallenge"

\* the value the parameters give to key k: its value where the key is among
\* them, else "MD5" for algorithm and "" for every other key
FieldOf(k) ==
    IF \E i \in DOMAIN fields : fields[i].key = k
    THEN (CHOOSE pm \in Range(fields) : pm.key = k).val
    ELSE IF k = sAlgorithm THEN sMD5 ELSE EmptyStr

\* the input is "Digest " followed by one or more key="value" pairs with
\* recognized keys
FieldSetFormatted ==
    /\ fields # <<>>
    /\ \A i \in DOMAIN fields : fields[i].key \in Keys /\ ~fields[i].bare
    /\ input = FormatChallenge(sDigestSp, fields)

\* C17 (as claimed): parsing "Digest " followed by comma-separated
\* key="value" pairs with recognized keys succeeds and yields the value of
\* every key given, "MD5" for an algorithm not given and "" for the rest,
\* values that hold a comma or an '=' included.
C17_FormatParseRoundTrip ==
    (parsed # NotParsed /\ FieldSetFormatted) =>
      /\ parsed.err = "nil"
      /\ \A k \in Keys : parsed.c[KeyField(k)] = FieldOf(k)

\* C18 (as claimed): parseChallenge fails with ErrBadChallenge and returns no
\* challenge whenever a parameter has an unrecognized key, whatever the other
\* parameters.
C18_UnknownKeyFails ==
    (parsed # NotParsed /\ \E i \in DOMAIN fields : fields[i].key = sFoo) =>
      /\ parsed.err = "ErrBadChallenge"
      /\ parsed.c = NilChallenge

(***************************************************************************)
(* Properties of credentials.authorize.                                    *)
(***************************************************************************)
\* C19: authorize returns no error and a non-empty value exactly when the
\* algorithm is "MD5" and the qop is "auth" or ""; in every other case it
\* returns ErrAlgNotImplemented and the empty value.
C19_SupportedExactly ==
    header # NotAuthorized =>
      IF cred.Algorithm = sMD5 /\ cred.MessageQop \in {sAuth, EmptyStr}
      THEN header.err = "nil" /\ header.val # EmptyStr
      ELSE header.err = "ErrAlgNotImplemented" /\ header.val = EmptyStr

\* C19's case: authorize was called with algorithm MD5-sess and with qop
\* auth-int
C19_SessRefused ==
    /\ header.err = "ErrAlgNotImplemented"
    /\ cred.Algorithm = sMD5sess
    /\ cred.MessageQop = sAuthInt

\* the keys of the parameters of an Authorization value, in their order
HeaderKeys(hdr) ==
    LET sl == Split(Slice(hdr, 7, Len(hdr)), ",")
    IN  [i \in DOMAIN sl |-> Trim(SplitN2(sl[i], "=")[1], {" "})]

sResponse == <<"r", "e", "s", "p", "o", "n", "s", "e">>
sCnonce == <<"c", "n", "o", "n", "c", "e">>

\* C20: a value authorize returns is "Digest " followed by the fields
\* username, realm, nonce, uri, response, algorithm, then opaque when the
\* opaque is non-empty, then qop, nc, cnonce when the qop is non-empty, in
\* that order and no other field; with qop "auth" on fresh credentials nc is
\* 00000001 and cnonce is 16 hex digits.
C20_FieldOrder ==
    header.err = "nil" =>
      /\ HasPrefix(header.val, sDigestSp)
      /\ HeaderKeys(header.val) =
            <<sUsername, sRealm, sNonce, sUri, sResponse, sAlgorithm>>
              \o (IF cred.Opaque # EmptyStr THEN <<sOpaque>> ELSE <<>>)
              \o (IF cred.MessageQop # EmptyStr THEN <<sQop, sNc, sCnonce>>
                  ELSE <<>>)
      /\ cred.MessageQop = sAuth =>
           /\ AuthParam(header.val, sNc) = <<"0", "0", "0", "0", "0", "0", "0", "1">>
           /\ Len(AuthParam(header.val, sCnonce)) = 16
           /\ Range(AuthParam(header.val, sCnonce)) \subseteq Range(HexDigits)

\* C20's case: authorize succeeded with qop "auth" and an opaque
C20_AuthWithOpaque ==
    /\ header.err = "nil"
    /\ cred.MessageQop = sAuth
    /\ cred.Opaque # EmptyStr

(***************************************************************************)
(* Properties of Sync.                                                     *)
(***************************************************************************)
\* the calls of run r, in their order
OpsOf(r) == SelectSeq(ops, LAMBDA x : x.run = r)

\* the calls of Delete, Update and Add of run r, in their order
WritesOf(r) ==
    SelectSeq(ops, LAMBDA x : x.run = r /\ x.op \in {"Delete", "Update", "Add"})

\* the current run has sorted the contacts into its three lists
Classified == spc = "delete" \/ WritesOf(runs) # <<>>

\* the sources key their contacts by ID
KeyedByID ==
    \A i \in DOMAIN from : \A k \in DOMAIN from[i] : from[i][k].ID = k

\* the target contact with ID id is in toBeDeleted, is in toBeUpdated
IsDeleted(id) == \E i \in DOMAIN toBeDeleted : toBeDeleted[i].ID = id
IsUpdated(id) == \E i \in DOMAIN toBeUpdated : toBeUpdated[i].ID = id

\* contacts a and b differ in Email, FullName, Image or Numbers, a nil and an
\* empty Numbers counting as equal
Differ(a, b) ==
    \/ a.Email # b.Email
    \/ a.FullName # b.FullName
    \/ a.Image # b.Image
    \/ a.Numbers.list # b.Numbers.list

\* C22: once Sync has sorted the contacts, every target contact is in at most
\* one of toBeDeleted and toBeUpdated, and there once; among the target
\* contacts whose SyncID is the key of a source contact exactly one (the
\* first visited) is matched and the others are deleted, a target contact
\* whose SyncID is no source key is deleted, and no other; a matched target
\* contact is updated if and only if it differs from its source contact in
\* Email, FullName, Image or Numbers; a source contact is in toBeAdded (once)
\* if and only if no target contact has its key as SyncID; and no source
\* contact is both added and updated.
C22_ClassifiedOnce ==
    Classified =>
      /\ Len(toBeDeleted) + Len(toBeUpdated) =
           Cardinality({id \in DOMAIN old : IsDeleted(id) \/ IsUpdated(id)})
      /\ \A id \in DOMAIN old :
           /\ ~(IsDeleted(id) /\ IsUpdated(id))
           /\ old[id].SyncID \notin DOMAIN merged => IsDeleted(id)
           /\ (old[id].SyncID \in DOMAIN merged /\ ~IsDeleted(id)) =>
                (IsUpdated(id) <=> Differ(old[id], merged[old[id].SyncID]))
           /\ IsUpdated(id) => ~IsDeleted(id) /\ old[id].SyncID \in DOMAIN merged
      /\ \A k \in DOMAIN merged :
           LET same == {id \in DOMAIN old : old[id].SyncID = k}
               adds == {i \in DOMAIN toBeAdded : toBeAdded[i].SyncID = merged[k].ID}
           IN  /\ same # {} =>
                    Cardinality({id \in same : ~IsDeleted(id)}) = 1
               /\ Cardinality(adds) = IF same = {} THEN 1 ELSE 0
               /\ adds # {} =>
                    ~\E i \in DOMAIN toBeUpdated :
                       toBeUpdated[i].SyncID = merged[k].ID
      /\ Len(toBeAdded) =
           Cardinality({k \in DOMAIN merged :
                          \A id \in DOMAIN old : old[id].SyncID # k})

\* C22's case: two target contacts synced from the same source contact, one
\* updated and the other deleted, and another source contact added
C22_DuplicateDeleted ==
    /\ Classified
    /\ Len(toBeUpdated) = 1
    /\ Len(toBeAdded) = 1
    /\ Len(toBeDeleted) = 1
    /\ toBeDeleted[1].SyncID \in DOMAIN merged

\* C23: when the first run of Sync has returned nil and the sources key their
\* contacts by ID, the second run, with the same sources, sorts no contact
\* into any list, and calls Delete, Update and Add with empty lists.
C23_SecondSyncWritesNothing ==
    (runs = 2 /\ sret[1] = "nil" /\ KeyedByID) =>
      /\ \A i \in DOMAIN WritesOf(2) : WritesOf(2)[i].arg = <<>>
      /\ Classified =>
           toBeDeleted = <<>> /\ toBeUpdated = <<>> /\ toBeAdded = <<>>
      /\ sret[2] = "nil" => Len(WritesOf(2)) = 3

\* C23's case: the first run deleted, updated and added a contact, and the
\* second run has returned nil
C23_SecondRunDone ==
    /\ runs = 2 /\ sret[1] = "nil" /\ sret[2] = "nil" /\ KeyedByID
    /\ \A i \in DOMAIN WritesOf(1) : WritesOf(1)[i].arg # <<>>

\* C28: the calls of Delete, Update and Add of a run are, in this order,
\* Delete, Update, Add, each at most once; a call that returns an error is
\* the last call of the run, and the run has returned that error; a run that
\* returned nil made all three calls.
C28_WriteOrder ==
    \A r \in 1..runs :
      LET w == WritesOf(r)
          a == OpsOf(r)
      IN  /\ Len(w) <= 3
          /\ \A i \in DOMAIN w :
               /\ w[i].op = <<"Delete", "Update", "Add">>[i]
               /\ w[i].err # "nil" =>
                    /\ i = Len(w)
                    /\ a[Len(a)] = w[i]
                    /\ sret[r] = w[i].err
                    /\ r = runs => spc = "done"
          /\ sret[r] = "nil" => Len(w) = 3

\* C28's case: Update has returned an error
C28_UpdateFailed ==
    \E r \in 1..runs :
      /\ Len(WritesOf(r)) = 2
      /\ WritesOf(r)[2].err = "errUpdate"
      /\ sret[r] = "errUpdate"

\* C29: the first call of a run reads the target, the sources are read
\* after it in their order, and a read that returns an error is the last
\* call of the run: no later source is read, none of Delete, Update and Add
\* is called, and the run has returned that error.
C29_ReadErrorStops ==
    \A r \in 1..runs :
      LET a == OpsOf(r)
      IN  \A i \in DOMAIN a :
            /\ (i = 1) <=> (a[i].op = "ReadTarget")
            /\ a[i].op = "ReadSource" => a[i].arg = <<i - 1>>
            /\ a[i].op \in {"Delete", "Update", "Add"} => i > Len(from) + 1
            /\ (a[i].op \in {"ReadTarget", "ReadSource"} /\ a[i].err # "nil") =>
                 /\ i = Len(a)
                 /\ sret[r] = a[i].err
                 /\ r = runs => spc = "done"

\* C29's case: the first of two sources could not be read
C29_FirstSourceFailed ==
    \E r \in 1..runs :
      /\ Len(from) = 2
      /\ Len(OpsOf(r)) = 2
      /\ sret[r] = "errReadSource"
      /\ spc = "done"

\* the data of a contact: all but ID and SyncID
DataOf(c) ==
    [Email |-> c.Email, FullName |-> c.FullName, Image |-> c.Image,
     Numbers |-> c.Numbers]

\* C30: the lists given to Delete, Update and Add are toBeDeleted,
\* toBeUpdated and toBeAdded; a contact of toBeUpdated is a source contact
\* with its ID as SyncID and, as ID, the ID of a target contact whose SyncID
\* is that source contact's key; a contact of toBeAdded is a source contact
\* with its ID as SyncID and the empty ID; a contact of toBeDeleted is a
\* target contact as it was read.
C30_ListContents ==
    /\ \A i \in DOMAIN ops :
         ops[i].run = runs =>
           /\ ops[i].op = "Delete" => ops[i].arg = toBeDeleted
           /\ ops[i].op = "Update" => ops[i].arg = toBeUpdated
           /\ ops[i].op = "Add" => ops[i].arg = toBeAdded
    /\ \A i \in DOMAIN toBeUpdated :
         LET u == toBeUpdated[i]
         IN  /\ u.ID \in DOMAIN old
             /\ old[u.ID].ID = u.ID
             /\ old[u.ID].SyncID \in DOMAIN merged
             /\ u.SyncID = merged[old[u.ID].SyncID].ID
             /\ DataOf(u) = DataOf(merged[old[u.ID].SyncID])
    /\ \A i \in DOMAIN toBeAdded :
         LET e == toBeAdded[i]
         IN  /\ e.ID = ""
             /\ \E k \in DOMAIN merged :
                  e.SyncID = merged[k].ID /\ DataOf(e) = DataOf(merged[k])
    /\ \A i \in DOMAIN toBeDeleted :
         /\ toBeDeleted[i].ID \in DOMAIN old
         /\ toBeDeleted[i] = old[toBeDeleted[i].ID]

\* C30's case: Delete, Update and Add were each given a contact, and the
\* sources do not key their contacts by ID
C30_AllThreeGiven ==
    /\ ~KeyedByID
    /\ Len(WritesOf(runs)) = 3
    /\ \A i \in DOMAIN WritesOf(runs) : WritesOf(runs)[i].arg # <<>>

(***************************************************************************)
(* The conversions of the Fritz!Box adapter, as Add and Update             *)
(* (phonebookEntryFromContact) and ReadAll (contactFromPhonebookEntry)     *)
(* apply them.                                                             *)
(***************************************************************************)
DecDigits == <<"0", "1", "2", "3", "4", "5", "6", "7", "8", "9">>

\* strconv.Atoi: an optional sign and decimal digits, [ok, val]
RECURSIVE DecValue(_)
DecValue(s) ==
    IF s = <<>> THEN 0
    ELSE 10 * DecValue(SubSeq(s, 1, Len(s) - 1))
           + (CHOOSE d \in 0..9 : DecDigits[d + 1] = s[Len(s)])
Atoi(s) ==
    LET signed == s # <<>> /\ Head(s) \in {"+", "-"}
        digits == IF signed THEN Tail(s) ELSE s
    IN  IF digits = <<>> \/ \E i \in DOMAIN digits : digits[i] \notin Range(DecDigits)
        THEN [ok |-> FALSE, val |-> 0]
        ELSE [ok |-> TRUE,
              val |-> IF signed /\ Head(s) = "-" THEN 0 - DecValue(digits)
                      ELSE DecValue(digits)]

\* strconv.Itoa
RECURSIVE Itoa(_)
Itoa(n) ==
    IF n < 0 THEN <<"-">> \o Itoa(0 - n)
    ELSE IF n < 10 THEN <<DecDigits[n + 1]>>
    ELSE Itoa(n \div 10) \o <<DecDigits[(n % 10) + 1]>>

\* strings.TrimSpace (of the white space a TLA+ string can hold)
TrimSpace(s) == Trim(s, {" ", "\t", "\n", "\r", "\f"})

\* a.phonebookEntryFromContact(contact): [done, err, e]
phonebookEntryFromContact(c) ==
    LET id == Atoi(c.ID)
        number(num) ==
          [Number |-> num.Number,
           Prio |-> IF num.Priority THEN 1 ELSE 0,
           Type |-> IF num.Type = Fax THEN "fax"
                    ELSE IF num.Type = Cell THEN "mobile"
                    ELSE IF num.Purpose = Work THEN "work"
                    ELSE "home"]
        numbers == [i \in DOMAIN c.Numbers.list |-> number(c.Numbers.list[i])]
    IN  IF c.ID # <<>> /\ ~id.ok
        THEN [NoEntry EXCEPT !.done = TRUE, !.err = "Atoi"]
        ELSE [done |-> TRUE, err |-> "nil",
              e |-> [RealName |-> c.FullName,
                     Address |-> c.Email,
                     UniqueID |-> IF c.ID # <<>> THEN id.val ELSE 0,
                     Numbers |-> [isNil |-> numbers = <<>>, list |-> numbers],
                     Unknown |-> IF c.SyncID # <<>>
                                 THEN <<[Local |-> syncIDKey,
                                         Inner |-> c.SyncID]>>
                                 ELSE <<>>]]

\* a.contactFromPhonebookEntry(entry)
contactFromPhonebookEntry(e) ==
    LET number(num) ==
          [Number |-> TrimSpace(num.Number),
           Priority |-> num.Prio > 0,
           Purpose |-> IF num.Type = "work" THEN Work ELSE Home,
           Type |-> IF num.Type = "mobile" THEN Cell
                    ELSE IF num.Type = "fax" THEN Fax
                    ELSE Voice]
        numbers == [i \in DOMAIN e.Numbers.list |-> number(e.Numbers.list[i])]
        keyed == {i \in DOMAIN e.Unknown : e.Unknown[i].Local = syncIDKey}
    IN  [Email |-> TrimSpace(e.Address),
         FullName |-> TrimSpace(e.RealName),
         ID |-> Itoa(e.UniqueID),
         Image |-> <<>>,
         Numbers |-> [isNil |-> numbers = <<>>, list |-> numbers],
         SyncID |-> IF keyed = {} THEN <<>>
                    ELSE e.Unknown[CHOOSE i \in keyed :
                                     \A j \in keyed : i <= j].Inner]

\* Add (and Update, which calls Add): the entry of the contact
WriteEntry ==
    /\ ~entry.done
    /\ entry' = phonebookEntryFromContact(contact)
    /\ UNCHANGED <<shared, locals, history, pure, syncv, contact, back>>

\* ReadAll: the contact of the entry written
ReadEntry ==
    /\ entry.done
    /\ entry.err = "nil"
    /\ ~back.done
    /\ back' = [done |-> TRUE, c |-> contactFromPhonebookEntry(entry.e)]
    /\ UNCHANGED <<shared, locals, history, pure, syncv, contact, entry>>

NextFritz ==
    \/ WriteEntry
    \/ ReadEntry

SpecFritz == InitFritz /\ [][NextFritz]_vars

(***************************************************************************)
(* Properties of credentials.resp with MD5 computed.                       *)
(***************************************************************************)
\* resp has returned and every h of the digest is computed
DigestDone == term # EmptyStr /\ ~md.on /\ FirstClose(term) = 0

\* how many h of the term t are not computed yet
Pending(t) == Cardinality({i \in 1..Len(t) : OpensAt(t, i)})

\* the digest of the example of RFC 2617
sRfcResponse ==
    <<"6", "7", "0", "f", "d", "8", "c", "2", "d", "f", "0", "7", "0", "c",
      "6", "0", "b", "0", "4", "5", "6", "7", "1", "b", "8", "b", "2", "4",
      "f", "f", "0", "2">>

\* C21: for the credentials of the RFC 2617 example (no qop), resp yields
\* h(h(username:realm:password):nonce:h(method:digestURI)), and with every h
\* computed as MD5 in lowercase hex the digest is
\* 670fd8c2df070c60b045671b8b24ff02.
C21_RfcExampleDigest ==
    (cred = RfcCredentials /\ term # EmptyStr) =>
      /\ (~md.on /\ Pending(term) = 3) =>
           term = <<"m", "d", "5", "(">>
                    \o <<"m", "d", "5", "(">> \o sMufasa \o Colon \o sTestRealm
                    \o Colon \o sCircleOfLife \o <<")">> \o Colon \o sRfcNonce
                    \o Colon \o <<"m", "d", "5", "(">> \o sGET \o Colon
                    \o sDirIndex \o <<")">> \o <<")">>
      /\ DigestDone => term = sRfcResponse

\* C21's case: the digest of the RFC 2617 example is computed
C21_RfcDigestComputed == cred = RfcCredentials /\ DigestDone

(***************************************************************************)
(* Properties of the Fritz!Box adapter's conversions.                      *)
(***************************************************************************)
\* C31 (as claimed): a contact converted to a phonebook entry and back equals
\* the contact it came from under Sync's equality (Email, FullName, Image,
\* Numbers) and in SyncID, a non-empty Image and numbers that are Cell or
\* Fax and Work included.
C31_FritzRoundTrip ==
    back.done => (equal(back.c, contact) /\ back.c.SyncID = contact.SyncID)

=============================================================================
